---- MODULE Spec2Model ----
(***************************************************************************)
(* GitPeek: the pagination / aggregation pipeline.                         *)
(*                                                                         *)
(*   api/utils/github.js    githubApiRequest, fetchAllPages,               *)
(*                          fetchPagesWithDateTermination                  *)
(*   api/utils/analysis.js  extractContributors, calculateLanguage-        *)
(*                          Percentages, calculateRiskAssessment           *)
(*                          (its text is src/api/utils/response.js:98-316) *)
(*   api/repository/[owner]/[repo]/analysis  the Analysis Composer         *)
(*                                                                         *)
(* Three specifications share the variables; each leaves the others'       *)
(* variables at rest:                                                      *)
(*   Spec           one call of a paginated fetcher                        *)
(*   SpecAggregate  one call of an Aggregator function                     *)
(*   SpecAnalysis   one request to the analysis handler                    *)
(*                                                                         *)
(* Optional JavaScript values (undefined / null) are sequences of length   *)
(* at most one: <<>> is "absent", <<v>> is the value v.  Timestamps are    *)
(* integers (the order of the ISO dates is all the code uses).             *)
(***************************************************************************)
EXTENDS Integers, Sequences, FiniteSets, TLC

\* ------------------------------------------------------------------ bounds
\* Timestamps are 1..MaxT.
MaxT == 3
\* Longest upstream collection enumerated item by item (every order).
MaxLen == 4
\* Longest repeating pattern of a collection that outlasts the page ceiling.
MaxCycle == 2
\* Largest maxItems, and largest collection size, given to fetchAllPages.
MaxCap == 7
\* The page size (per_page).  100 in github.js:53 and :130; the model fetches
\* pages of this many items so that several pages fit the bounds.  It must be
\* at least 3 for a short last page to overshoot a cap that no full page hit.
perPage == 3

\* The page ceiling of fetchPagesWithDateTermination (github.js:109).
PageLimit == 50

VARIABLES
  \* --- upstream (the GitHub REST collection being paged through)
  pattern,        \* timestamps of the items; repeated when total > Len(pattern)
  total,          \* number of items the collection holds
  \* --- arguments of the fetch
  fn,             \* "fetchAllPages" | "fetchPagesWithDateTermination" | "none"
  since,          \* lower bound, optional
  until,          \* upper bound, optional
  maxItems,       \* 0 = no limit
  fetcher,        \* the domain fetcher that made the call, "none" for a direct call
  params,         \* the query parameters it passed
  dateField,      \* the field it named as the items' date, "" when none
  \* --- locals of the fetch
  page,
  allItems,
  fpc,            \* "loop" | "returned" | "thrown" | "idle"
  returned,       \* the array the promise resolved with (when fpc = "returned")
  thrown,         \* the message of the Error the promise rejected with
  \* --- what went over the wire
  requested,      \* page numbers requested, in order
  lastStatus,     \* HTTP status of the last response (0: none yet)
  \* --- one call of an Aggregator function (analysis.js)
  aop,            \* the function called, "none" when at rest
  commits,        \* argument: a list of commits
  languagesData,  \* arguments of calculateLanguagePercentages
  fallbackLanguage,
  contributors,   \* argument: a ranked list of contributors
  maxPairs,       \* argument of generateCollaborationPairs
  pullRequests,   \* argument of calculateQuarterlyInsights
  apc,            \* "call" | "return" | "idle"
  aout,           \* the value returned
  \* --- one request to a protected handler
  variant,        \* which handler source serves the request
  req,            \* [method, ownerRepo, session]
  repo,           \* what GitHub holds for the repository asked about
  faults,         \* the failure statuses GitHub may answer with
  hpc,            \* "received" | "awaiting" | "responded" | "idle"
  settled,        \* the upstream fetches: state, value, error, status
  joined,         \* the Promise.all over them
  arrival,        \* the order in which the fetches ended, where it is followed
  responses,      \* what was written to res, in order
  \* --- one instance of the useSSE hook (frontend)
  retryCount,     \* retryCountRef.current
  eventSource,    \* eventSourceRef.current: "null", or the readyState of the source
  timers,         \* delays of the retry timers that have not fired yet
  isConnected,
  hookError,      \* the hook's error state, "" for null
  onErrorCalls,   \* the calls of options.onError, in order
  scheduled,      \* the retries scheduled so far: attempt and delay
  failures,       \* error events so far
  resets,         \* calls of reset() so far
  connectCalls,   \* calls of connect() by the component so far
  \* --- the browser session (AuthContext.js, api.js)
  mounted,        \* AuthProvider is mounted
  urlSession,     \* ?session= of the page URL, "" when absent
  stored,         \* localStorage 'github_session', "" when absent
  sessionId,      \* "" for null
  user,           \* "" for null
  loading,
  location,       \* "app", or "/" once window.location.href was set to it
  authErrorHandler,
  inflight,       \* the apiCalls awaiting their response
  calls,          \* the apiCalls that ended: who, status, what the call threw
  reloads,        \* page loads that followed a redirect
  \* ---- RepositoryAnalysis component (RepositoryAnalysis.js), regular mode
  routeRepo,      \* the owner/repo of the route, 0 when not mounted
  quarterFilter,  \* "" when not mounted
  analysis,       \* <<>> for null, else <<the data of one response>>
  analysisLoading,
  analysisError,  \* "" for null
  analysisCalls,  \* the apiCalls of fetchAnalysis awaiting their response
  issued,         \* how many such calls were made
  overlapped      \* the filter was changed while a call was awaited

fetchVars == <<pattern, total, fn, since, until, maxItems, fetcher, params,
               dateField, page, allItems, fpc, returned, thrown, requested,
               lastStatus>>

aggArgs == <<aop, commits, languagesData, fallbackLanguage, contributors,
             maxPairs, pullRequests>>

aggVars == <<aggArgs, apc, aout>>

handlerVars == <<variant, req, repo, faults, hpc, settled, joined, arrival, responses>>

sseVars == <<retryCount, eventSource, timers, isConnected, hookError,
             onErrorCalls, scheduled, failures, resets, connectCalls>>

authState == <<stored, sessionId, user, loading, location>>

authVars == <<mounted, urlSession, authState, authErrorHandler, inflight, calls, reloads>>

pageVars == <<routeRepo, quarterFilter, analysis, analysisLoading,
              analysisError, analysisCalls, issued, overlapped>>

frontVars == <<sseVars, authVars, pageVars>>

vars == <<fetchVars, aggVars, handlerVars, frontVars>>

\* ---------------------------------------------------------------- helpers
Min(a, b) == IF a < b THEN a ELSE b
Max(a, b) == IF a > b THEN a ELSE b

Dates == 1..MaxT
OptDate == {<<>>} \cup {<<d>> : d \in Dates}

RECURSIVE SeqsUpTo(_, _)
SeqsUpTo(S, n) ==
  IF n = 0 THEN {<<>>}
  ELSE LET shorter == SeqsUpTo(S, n - 1)
       IN  shorter \cup {Append(s, x) : s \in {t \in shorter : Len(t) = n - 1}, x \in S}

\* A collection longer than the page ceiling can scan.
LongTotal == PageLimit * perPage + 1

\* ---------------------------------------------------------------- upstream
\* The i-th item of the collection (1-based), as the API would list it.
UpstreamItem(i) ==
  [id |-> i, date |-> pattern[((i - 1) % Len(pattern)) + 1]]

\* GET endpoint?per_page=perPage&page=p answered 200: the p-th slice.
PageOf(p) ==
  LET first == (p - 1) * perPage
      n     == Max(0, Min(perPage, total - first))
  IN  [k \in 1..n |-> UpstreamItem(first + k)]

\* The statuses an upstream response may carry.
Statuses == {200, 401, 404, 500}

\* The 401 / 404 cases left out.
ErrorFor_Generic(status) == <<"GitHub API error: ", ToString(status)>>

\* githubApiRequest: the Error thrown for a response that is not ok.
ErrorFor(status) ==
  IF status = 401 THEN <<"GitHub token expired">>
  ELSE IF status = 404 THEN <<"Resource not found">>
  ELSE <<"GitHub API error: ", ToString(status)>>

\* ----------------------------------------- fetchPagesWithDateTermination
\* github.js:88   since && itemDate < new Date(since)
TooOld(itemDate, snc) == snc /= <<>> /\ itemDate < snc[1]

\* The upper bound not applied.
InRange_NoUpper(itemDate, snc, utl) == snc = <<>> \/ itemDate >= snc[1]

\* The upper bound taken as exclusive.
InRange_ExclusiveUpper(itemDate, snc, utl) ==
  (snc = <<>> \/ itemDate >= snc[1]) /\ (utl = <<>> \/ itemDate < utl[1])

\* github.js:94
InRange(itemDate, snc, utl) ==
  (snc = <<>> \/ itemDate >= snc[1]) /\ (utl = <<>> \/ itemDate <= utl[1])

\* github.js:70-97: the for-of loop over one page, from item k on.
RECURSIVE ScanPage(_, _, _, _, _)
ScanPage(items, k, validItems, snc, utl) ==
  IF k > Len(items)
  THEN [validItems |-> validItems, shouldTerminate |-> FALSE]
  ELSE LET itemDate == items[k].date
       IN  IF TooOld(itemDate, snc)
           THEN [validItems |-> validItems, shouldTerminate |-> TRUE]
           ELSE IF InRange(itemDate, snc, utl)
                THEN ScanPage(items, k + 1, Append(validItems, items[k]), snc, utl)
                ELSE ScanPage(items, k + 1, validItems, snc, utl)

\* shouldTerminate forgotten: only a short page stops the fetch.
StopAfterPage_ShortPageOnly(shouldTerminate, n) == n < perPage

\* github.js:102
StopAfterPage(shouldTerminate, n) == shouldTerminate \/ n < perPage

\* The safety limit left out.
ReachedPageLimit_Never(p) == FALSE

\* github.js:109
ReachedPageLimit(p) == p > PageLimit

\* One iteration of the while loop (github.js:56-113), the request included.
DateFetchIteration ==
  /\ fn = "fetchPagesWithDateTermination"
  /\ fpc = "loop"
  /\ requested' = Append(requested, page)
  /\ \E status \in Statuses :
       /\ lastStatus' = status
       /\ IF status /= 200
          THEN /\ fpc' = "thrown"
               /\ thrown' = ErrorFor(status)
               /\ UNCHANGED <<page, allItems, returned>>
          ELSE LET items == PageOf(page)
               IN  IF Len(items) = 0
                   THEN /\ fpc' = "returned"
                        /\ returned' = allItems
                        /\ UNCHANGED <<page, allItems, thrown>>
                   ELSE LET scan == ScanPage(items, 1, <<>>, since, until)
                            all  == allItems \o scan.validItems
                            stop == StopAfterPage(scan.shouldTerminate, Len(items))
                        IN  /\ allItems' = all
                            /\ page' = page + 1
                            /\ IF ReachedPageLimit(page + 1) \/ stop
                               THEN fpc' = "returned" /\ returned' = all
                               ELSE fpc' = "loop" /\ UNCHANGED returned
                            /\ UNCHANGED thrown
  /\ UNCHANGED <<pattern, total, fn, since, until, maxItems, fetcher, params, dateField>>
  /\ UNCHANGED <<aggVars, handlerVars, frontVars>>

\* ------------------------------------------------------------ fetchAllPages
\* github.js:149
\* A loop that never looks at maxItems.
CapReached_Never(n, cap) == FALSE

CapReached(n, cap) == cap > 0 /\ n >= cap

\* One iteration of the while loop (github.js:132-154), the request included.
AllPagesIteration ==
  /\ fn = "fetchAllPages"
  /\ fpc = "loop"
  /\ requested' = Append(requested, page)
  /\ \E status \in Statuses :
       /\ lastStatus' = status
       /\ IF status /= 200
          THEN /\ fpc' = "thrown"
               /\ thrown' = ErrorFor(status)
               /\ UNCHANGED <<page, allItems, returned>>
          ELSE LET items == PageOf(page)
               IN  IF Len(items) = 0
                   THEN /\ fpc' = "returned"
                        /\ returned' = allItems
                        /\ UNCHANGED <<page, allItems, thrown>>
                   ELSE LET all == allItems \o items
                        IN  /\ allItems' = all
                            /\ UNCHANGED thrown
                            /\ IF Len(items) < perPage
                               THEN /\ fpc' = "returned"
                                    /\ returned' = all
                                    /\ UNCHANGED page
                               ELSE IF CapReached(Len(all), maxItems)
                                    THEN /\ fpc' = "returned"
                                         /\ returned' = SubSeq(all, 1, maxItems)
                                         /\ UNCHANGED page
                                    ELSE /\ fpc' = "loop"
                                         /\ page' = page + 1
                                         /\ UNCHANGED returned
  /\ UNCHANGED <<pattern, total, fn, since, until, maxItems, fetcher, params, dateField>>
  /\ UNCHANGED <<aggVars, handlerVars, frontVars>>

\* ------------------------------------------------------------ initial states
\* The parts of the state a specification does not exercise.
FetchIdle ==
  /\ fn = "none" /\ pattern = <<>> /\ total = 0
  /\ since = <<>> /\ until = <<>> /\ maxItems = 0
  /\ fetcher = "none" /\ params = <<>> /\ dateField = ""
  /\ page = 1 /\ allItems = <<>> /\ fpc = "idle"
  /\ returned = <<>> /\ thrown = <<>> /\ requested = <<>> /\ lastStatus = 0

AggIdle ==
  /\ aop = "none" /\ commits = <<>> /\ languagesData = <<>>
  /\ fallbackLanguage = "" /\ contributors = <<>>
  /\ maxPairs = 0 /\ pullRequests = <<>>
  /\ apc = "idle" /\ aout = <<>>

HandlerIdle ==
  /\ variant = "none" /\ req = <<>> /\ hpc = "idle"
  /\ repo = <<>> /\ faults = {}
  /\ settled = <<>> /\ joined = <<>> /\ arrival = <<>> /\ responses = <<>>

\* The hook after its first render: useRef(0), useRef(null), useState(...).
HookRendered ==
  /\ retryCount = 0 /\ eventSource = "null" /\ timers = <<>>
  /\ isConnected = FALSE /\ hookError = "" /\ onErrorCalls = <<>>
  /\ scheduled = <<>> /\ failures = 0 /\ resets = 0 /\ connectCalls = 0

\* The page before AuthProvider is mounted: useState(null), useState(true),
\* let authErrorHandler = null.
PageLoaded ==
  /\ mounted = FALSE /\ sessionId = "" /\ user = "" /\ loading = TRUE
  /\ location = "app" /\ authErrorHandler = "null"
  /\ inflight = {} /\ calls = <<>> /\ reloads = 0

\* The RepositoryAnalysis component is not on the page.
NoAnalysisPage ==
  /\ routeRepo = 0 /\ quarterFilter = "" /\ analysis = <<>>
  /\ analysisLoading = FALSE /\ analysisError = ""
  /\ analysisCalls = {} /\ issued = 0 /\ overlapped = FALSE

FrontIdle ==
  HookRendered /\ PageLoaded /\ urlSession = "" /\ stored = "" /\ NoAnalysisPage

\* The fetch was called directly, not through a domain fetcher.
DirectCall == fetcher = "none" /\ params = <<>> /\ dateField = ""

FetchLocalsInit ==
  /\ page = 1
  /\ allItems = <<>>
  /\ fpc = "loop"
  /\ returned = <<>>
  /\ thrown = <<>>
  /\ requested = <<>>
  /\ lastStatus = 0

\* fetchAllPages over a collection of any size up to MaxCap, or a long one.
InitAllPages ==
  /\ fn = "fetchAllPages"
  /\ pattern = <<1>>
  /\ total \in (0..MaxCap) \cup {LongTotal}
  /\ maxItems \in 0..MaxCap
  /\ since = <<>>
  /\ until = <<>>
  /\ DirectCall
  /\ FetchLocalsInit

\* fetchPagesWithDateTermination over every short collection, in any order.
InitDateShort ==
  /\ fn = "fetchPagesWithDateTermination"
  /\ pattern \in SeqsUpTo(Dates, MaxLen)
  /\ total = Len(pattern)
  /\ maxItems = 0
  /\ since \in OptDate
  /\ until \in OptDate
  /\ DirectCall
  /\ FetchLocalsInit

\* ... and over collections that outlast the page ceiling.
InitDateLong ==
  /\ fn = "fetchPagesWithDateTermination"
  /\ pattern \in SeqsUpTo(Dates, MaxCycle) \ {<<>>}
  /\ total = LongTotal
  /\ maxItems = 0
  /\ since \in OptDate
  /\ until \in OptDate
  /\ DirectCall
  /\ FetchLocalsInit

Init ==
  (InitAllPages \/ InitDateShort \/ InitDateLong) /\ AggIdle /\ HandlerIdle /\ FrontIdle

Next == DateFetchIteration \/ AllPagesIteration

Spec == Init /\ [][Next]_vars

\* fetchAllPages alone. Every awaited request settles (githubApiRequest
\* returns or throws), so an iteration that can run does run.
InitFetchAll == InitAllPages /\ AggIdle /\ HandlerIdle /\ FrontIdle

SpecFetchAll ==
  InitFetchAll /\ [][AllPagesIteration]_vars /\ WF_vars(AllPagesIteration)

\* ------------------------------------------------------- domain fetchers
\* fetchCommits, fetchPullRequests, fetchIssues (github.js:167-242): each
\* builds its query parameters and hands over to one of the two fetches.
Fetchers == {"fetchCommits", "fetchPullRequests", "fetchIssues"}

\* github.js:209
PullRequestCap == 1000
\* github.js:237
IssueCap == 500

MaxFetcherLen == 2

UsesDateTermination_EitherBound(f, snc, utl) == snc /= <<>> \/ utl /= <<>>

\* if (until) for commits (github.js:176), if (since || until) for pull
\* requests and issues (204, 234)
UsesDateTermination(f, snc, utl) ==
  IF f = "fetchCommits" THEN utl /= <<>> ELSE snc /= <<>> \/ utl /= <<>>

\* const params = {...}
BaseParams(f) ==
  IF f = "fetchCommits" THEN <<>>
  ELSE [state |-> "all", sort |-> "created", direction |-> "desc"]

\* if (since) params.since = since
WithSince(p, snc) ==
  IF snc = <<>> THEN p
  ELSE [k \in DOMAIN p \cup {"since"} |-> IF k = "since" THEN snc[1] ELSE p[k]]

ParamsOf(f, snc) ==
  IF f = "fetchPullRequests" THEN BaseParams(f) ELSE WithSince(BaseParams(f), snc)

\* The dateField argument.
DateFieldOf(f) == IF f = "fetchCommits" THEN "commit.author.date" ELSE "created_at"

\* The maxItems argument of the full fetch.
CapOf(f) ==
  IF f = "fetchCommits" THEN 0
  ELSE IF f = "fetchPullRequests" THEN PullRequestCap
  ELSE IssueCap

\* The fetcher up to its await: the parameters are built and one of the two
\* fetches is entered with them; its result is what the fetcher returns.
Dispatch(f) ==
  /\ fetcher = f /\ fn = "none"
  /\ params' = ParamsOf(f, since)
  /\ IF UsesDateTermination(f, since, until)
     THEN /\ fn' = "fetchPagesWithDateTermination"
          /\ dateField' = DateFieldOf(f)
          /\ maxItems' = 0
     ELSE /\ fn' = "fetchAllPages"
          /\ dateField' = ""
          /\ maxItems' = CapOf(f)
  /\ fpc' = "loop"
  /\ UNCHANGED <<pattern, total, since, until, fetcher, page, allItems,
                 returned, thrown, requested, lastStatus>>
  /\ UNCHANGED <<aggVars, handlerVars, frontVars>>

CallFetchCommits == Dispatch("fetchCommits")

CallFetchPullRequests == Dispatch("fetchPullRequests")

CallFetchIssues == Dispatch("fetchIssues")

InitFetchers ==
  /\ fetcher \in Fetchers
  /\ since \in OptDate
  /\ until \in OptDate
  /\ pattern \in SeqsUpTo(Dates, MaxFetcherLen)
  /\ total = Len(pattern)
  /\ fn = "none" /\ maxItems = 0 /\ params = <<>> /\ dateField = ""
  /\ page = 1 /\ allItems = <<>> /\ fpc = "idle"
  /\ returned = <<>> /\ thrown = <<>> /\ requested = <<>> /\ lastStatus = 0
  /\ AggIdle /\ HandlerIdle /\ FrontIdle

NextFetchers ==
  \/ CallFetchCommits
  \/ CallFetchPullRequests
  \/ CallFetchIssues
  \/ DateFetchIteration
  \/ AllPagesIteration

SpecFetchers == InitFetchers /\ [][NextFetchers]_vars

\* ======================================================================
\* Properties of the paginated fetchers
\* ======================================================================
\* The whole collection, as the API lists it.
Upstream == [i \in 1..total |-> UpstreamItem(i)]

IsDateFetch == fn = "fetchPagesWithDateTermination"
IsAllPages  == fn = "fetchAllPages"

SortedNewestFirst ==
  \A i \in 1..(total - 1) : UpstreamItem(i).date >= UpstreamItem(i + 1).date

BothBounds == since /= <<>> /\ until /= <<>> /\ since[1] <= until[1]

WithinBounds(item) == since[1] <= item.date /\ item.date <= until[1]

\* C1: fetchAllPages returns exactly min(total_available, maxItems) items when
\* maxItems > 0, and the whole collection when maxItems = 0.
C1_ReturnsMinOfTotalAndCap ==
  (IsAllPages /\ fpc = "returned") =>
     Len(returned) = (IF maxItems > 0 THEN Min(total, maxItems) ELSE total)

\* C2 (as claimed): over a newest-first collection and bounds lower <= upper the
\* result is exactly the upstream items with lower <= t <= upper, in order.
C2_ExactlyTheItemsWithinBounds ==
  (IsDateFetch /\ fpc = "returned" /\ BothBounds /\ SortedNewestFirst) =>
     returned = SelectSeq(Upstream, WithinBounds)

\* C2 (amended): ... exactly the items with lower <= t <= upper among the first
\* PageLimit pages of the collection, in upstream order.
C2_ExactWithinPageCeiling ==
  (IsDateFetch /\ fpc = "returned" /\ BothBounds /\ SortedNewestFirst) =>
     returned = SelectSeq(SubSeq(Upstream, 1, Min(total, PageLimit * perPage)),
                          WithinBounds)

\* A two-page fetch over a newest-first collection that holds items newer than
\* the upper bound, items within the bounds and items older than the lower one.
C2_Witness ==
  /\ IsDateFetch /\ fpc = "returned" /\ BothBounds /\ SortedNewestFirst
  /\ Len(requested) = 2
  /\ Len(returned) >= 2
  /\ \E i \in 1..total : UpstreamItem(i).date > until[1]
  /\ \E i \in 1..total : UpstreamItem(i).date < since[1]

\* Page p holds an item older than the lower bound.
OlderThanLowerOn(p) ==
  since /= <<>> /\ \E k \in 1..Len(PageOf(p)) : PageOf(p)[k].date < since[1]

\* The items of page p listed before its first item older than the lower bound.
BeforeFirstOlder(p) ==
  {k \in 1..Len(PageOf(p)) : \A j \in 1..k : PageOf(p)[j].date >= since[1]}

Answered200(i) == i < Len(requested) \/ lastStatus = 200

InSeq(x, s) == \E k \in 1..Len(s) : s[k] = x

\* C3: once a fetched page holds an item older than the lower bound, that page
\* is the last one requested, and the fetch completes with what the page
\* contributed up to that item.
C3_NoPageAfterOlderItem ==
  IsDateFetch =>
    \A i \in 1..Len(requested) :
      (Answered200(i) /\ OlderThanLowerOn(requested[i])) =>
         /\ i = Len(requested)
         /\ fpc = "returned"
         /\ \A k \in BeforeFirstOlder(requested[i]) :
              (until = <<>> \/ PageOf(requested[i])[k].date <= until[1])
                 => InSeq(PageOf(requested[i])[k], returned)

\* A full page with an older item ended the fetch although upstream holds more.
C3_Witness ==
  /\ IsDateFetch /\ fpc = "returned"
  /\ OlderThanLowerOn(requested[Len(requested)])
  /\ Len(PageOf(requested[Len(requested)])) = perPage
  /\ total > Len(requested) * perPage
  /\ Len(returned) > 0

\* C4: fetchPagesWithDateTermination requests at most PageLimit pages; at the
\* ceiling it returns what it accumulated, as a normal result.
C4_AtMostPageLimitRequests ==
  IsDateFetch =>
    /\ Len(requested) <= PageLimit
    /\ (Len(requested) = PageLimit /\ lastStatus = 200) =>
          (fpc = "returned" /\ thrown = <<>> /\ returned = allItems)

\* The ceiling stopped a fetch over an unsorted collection that holds more.
C4_Witness ==
  /\ IsDateFetch /\ fpc = "returned"
  /\ Len(requested) = PageLimit
  /\ total > PageLimit * perPage
  /\ ~SortedNewestFirst
  /\ Len(returned) > 0

\* C5: a response that is not 2xx fails the whole fetch with the typed error
\* and no items, whatever was fetched before.
C5_ErrorAbortsWholeFetch ==
  /\ (lastStatus \notin {0, 200}) =>
        /\ fpc = "thrown"
        /\ thrown = (IF lastStatus = 401 THEN <<"GitHub token expired">>
                     ELSE IF lastStatus = 404 THEN <<"Resource not found">>
                     ELSE <<"GitHub API error: ", ToString(lastStatus)>>)
  /\ (fpc = "thrown") => (returned = <<>> /\ lastStatus \notin {0, 200})

\* A 404 on a later page, after items had been accumulated.
C5_Witness ==
  /\ fpc = "thrown" /\ lastStatus = 404
  /\ Len(requested) >= 2
  /\ Len(allItems) > 0
  /\ returned = <<>>


\* The item lies within the bounds that were given.
InGivenRange(item) ==
  /\ (since /= <<>> => since[1] <= item.date)
  /\ (until /= <<>> => item.date <= until[1])

\* C20: within every fetched page, the terminating page included and
\* whatever the order of the items inside the page, each item with
\* lower <= t <= upper is retained.
C20_InRangeItemsOfFetchedPagesRetained ==
  (IsDateFetch /\ fpc = "returned" /\ BothBounds) =>
    \A i \in 1..Len(requested) :
      \A k \in 1..Len(PageOf(requested[i])) :
        InGivenRange(PageOf(requested[i])[k]) =>
          InSeq(PageOf(requested[i])[k], returned)


\* The sequence takes its items from the upstream collection, in upstream
\* order and each at most once.
SubsequenceOfUpstream(s) ==
  /\ \A k \in 1..Len(s) : s[k].id \in 1..total /\ s[k] = UpstreamItem(s[k].id)
  /\ \A k \in 1..(Len(s) - 1) : s[k].id < s[k + 1].id

\* C21: at every point of the fetch, for any upstream item order, the
\* accumulated result holds only items with a timestamp >= the lower bound
\* (when given) and <= the upper bound (when given), and is a subsequence of
\* the upstream items in upstream order.
C21_AccumulatedOnlyInRangeInOrder ==
  IsDateFetch =>
    /\ \A k \in 1..Len(allItems) : InGivenRange(allItems[k])
    /\ SubsequenceOfUpstream(allItems)
    /\ fpc = "returned" => returned = allItems

\* An unsorted collection with items above, within and below the bounds:
\* the fetch kept two items that are not neighbours upstream.
C21_Witness ==
  /\ IsDateFetch /\ fpc = "returned"
  /\ since /= <<>> /\ until /= <<>>
  /\ ~SortedNewestFirst
  /\ \E i \in 1..total : UpstreamItem(i).date > until[1]
  /\ \E i \in 1..total : UpstreamItem(i).date < since[1]
  /\ Len(returned) >= 2
  /\ \E k \in 1..(Len(returned) - 1) : returned[k + 1].id > returned[k].id + 1


\* A domain fetcher has entered its fetch.
Dispatched == fetcher \in Fetchers /\ fn /= "none"

\* C22: fetchPullRequests and fetchIssues use the early-termination fetch
\* (on created_at, requested newest-first) iff a lower or an upper bound is
\* present, and otherwise a full fetch capped at 1000 pull requests or 500
\* issues; fetchCommits uses the early-termination fetch (on
\* commit.author.date) iff an upper bound is present and otherwise an
\* uncapped full fetch, with the lower bound as a query parameter either way.
C22_VariantChosenByBounds ==
  Dispatched =>
    /\ fn \in {"fetchPagesWithDateTermination", "fetchAllPages"}
    /\ fetcher \in {"fetchPullRequests", "fetchIssues"} =>
         /\ fn = "fetchPagesWithDateTermination" <=> (since /= <<>> \/ until /= <<>>)
         /\ params.sort = "created" /\ params.direction = "desc"
         /\ fn = "fetchPagesWithDateTermination" => dateField = "created_at"
         /\ fn = "fetchAllPages" =>
              maxItems = (IF fetcher = "fetchPullRequests" THEN 1000 ELSE 500)
    /\ fetcher = "fetchCommits" =>
         /\ fn = "fetchPagesWithDateTermination" <=> until /= <<>>
         /\ fn = "fetchPagesWithDateTermination" => dateField = "commit.author.date"
         /\ fn = "fetchAllPages" => maxItems = 0
         /\ "since" \in DOMAIN params <=> since /= <<>>
         /\ since /= <<>> => params["since"] = since[1]

\* fetchCommits with a lower bound only: the full fetch, uncapped, with the
\* bound in the query, run to its end.
C22_Witness ==
  /\ fetcher = "fetchCommits"
  /\ since /= <<>> /\ until = <<>>
  /\ fn = "fetchAllPages" /\ maxItems = 0
  /\ params["since"] = since[1]
  /\ fpc = "returned" /\ Len(returned) = MaxFetcherLen

\* Math.ceil(a / b)
CeilDiv(a, b) == (a + b - 1) \div b

FetchEnded == fpc \in {"returned", "thrown"}

\* C26: fetchAllPages ends, whatever the size of the collection and
\* whatever the upstream answers; the pages it requests are 1, 2, 3, ...
\* with none left out or repeated; and with maxItems > 0 it requests at
\* most ceil(maxItems / perPage) pages, however long the collection.
C26_TerminatesPagesAscendingRequestsCapped ==
  /\ [](requested = [i \in 1..Len(requested) |-> i])
  /\ []((maxItems > 0) => Len(requested) <= CeilDiv(maxItems, perPage))
  /\ <>FetchEnded

\* A collection longer than the page ceiling, cut off by maxItems after
\* as many full pages as the cap allows.
C26_Witness ==
  /\ fn = "fetchAllPages"
  /\ total = LongTotal
  /\ maxItems > perPage
  /\ fpc = "returned"
  /\ Len(requested) = CeilDiv(maxItems, perPage)
  /\ requested[Len(requested)] = Len(requested)

\* ======================================================================
\* Aggregator (analysis.js): pure functions over fetched collections
\* ======================================================================
\* Longest commit list given to extractContributors.
MaxCommits == 4
\* Largest byte count of a language.
MaxBytes == 4
\* Longest contributor list given to calculateRiskAssessment.
MaxContributors == 11
\* Largest contribution count in such a list.
MaxContributions == 2

\* author.login and commit.author.name as they occur in commits; "" stands
\* for a missing (or empty, equally falsy) value.
Logins == {"", "A", "B"}
Names  == {"", "A", "C"}
CommitShapes == [login : Logins, name : Names]

Langs == {"JS", "TS", "Go"}
Fallbacks == {"", "Python"}

RECURSIVE SumSeq(_, _)
\* s[1].contributions + ... + s[k].contributions
SumSeq(s, k) == IF k = 0 THEN 0 ELSE SumSeq(s, k - 1) + s[k].contributions

RECURSIVE SumBytes(_, _)
\* Object.values(languagesData).reduce((sum, bytes) => sum + bytes, 0)
SumBytes(data, keys) ==
  IF keys = {} THEN 0
  ELSE LET l == CHOOSE x \in keys : TRUE
       IN  data[l] + SumBytes(data, keys \ {l})

\* Math.floor in place of Math.round.
RoundPercent_Floor(part, whole) == (100 * part) \div whole

\* Math.round((part / whole) * 100): the nearest integer, a half rounded up.
\* (The double (part / whole) * 100 is off a true half only for whole >= 40,
\* e.g. 23 / 40; the bounds keep every total below that.)
RoundPercent(part, whole) == (200 * part + whole) \div (2 * whole)

\* ------------------------------------------------------ extractContributors
\* analysis.js: author.login || commit.commit?.author?.name
Identity(commit) == IF commit.login /= "" THEN commit.login ELSE commit.name

HasLogin(map, login) == \E i \in 1..Len(map) : map[i].login = login

\* The count set to one instead of incremented.
Increment_SetToOne(map, login) ==
  [i \in 1..Len(map) |->
     IF map[i].login = login THEN [map[i] EXCEPT !.contributions = 1] ELSE map[i]]

\* contributorMap.get(login).contributions++
Increment(map, login) ==
  [i \in 1..Len(map) |->
     IF map[i].login = login
     THEN [map[i] EXCEPT !.contributions = map[i].contributions + 1]
     ELSE map[i]]

\* commits.forEach(...) from commit k on; the Map is its entries in insertion order.
RECURSIVE ScanCommits(_, _, _)
ScanCommits(cs, k, map) ==
  IF k > Len(cs) THEN map
  ELSE LET login == Identity(cs[k])
           map1  == IF login /= "" /\ ~HasLogin(map, login)
                    THEN Append(map, [login |-> login, contributions |-> 0])
                    ELSE map
           map2  == IF login /= "" THEN Increment(map1, login) ELSE map1
       IN  ScanCommits(cs, k + 1, map2)

\* An unstable sort: a later element overtakes the equal ones before it.
StaysAhead_Strict(y, x) == y.contributions > x.contributions

\* Array.prototype.sort is stable: under (a, b) => b.contributions - a.contributions
\* an element y listed before x stays before it unless x has more contributions.
StaysAhead(y, x) == y.contributions >= x.contributions

\* x put into the sorted list behind every element that stays ahead of it.
InsertSorted(sorted, x) ==
  LET ahead == {i \in 1..Len(sorted) : \A j \in 1..i : StaysAhead(sorted[j], x)}
      n     == Cardinality(ahead)
  IN  SubSeq(sorted, 1, n) \o <<x>> \o SubSeq(sorted, n + 1, Len(sorted))

RECURSIVE SortContributors(_, _)
\* .sort((a, b) => b.contributions - a.contributions) of the first k entries
SortContributors(list, k) ==
  IF k = 0 THEN <<>> ELSE InsertSorted(SortContributors(list, k - 1), list[k])

extractContributors(cs) ==
  LET map == ScanCommits(cs, 1, <<>>)
  IN  SortContributors(map, Len(map))

\* ---------------------------------------------- calculateLanguagePercentages
calculateLanguagePercentages(data, fallback) ==
  LET totalBytes == SumBytes(data, DOMAIN data)
  IN  IF totalBytes > 0
      THEN [lang \in DOMAIN data |-> RoundPercent(data[lang], totalBytes)]
      ELSE IF fallback /= "" THEN [lang \in {fallback} |-> 100]
      ELSE <<>>

\* --------------------------------------------------- calculateRiskAssessment
\* The bus factor is capped at this many contributors.
BusFactorCap == 10

\* The upper clamp left out.
BusFactor_Uncapped(n) == Max(n, 1)

\* Math.max(Math.min(contributors.length, 10), 1)
BusFactor(n) == Max(Min(n, BusFactorCap), 1)

calculateRiskAssessment(cl) ==
  IF Len(cl) = 0
  THEN [bus_factor |-> 1, code_concentration |-> 0, activity_trend |-> "inactive"]
  ELSE LET totalContributions  == SumSeq(cl, Len(cl))
           topContributorShare == IF totalContributions > 0
                                  THEN RoundPercent(cl[1].contributions, totalContributions)
                                  ELSE 0
       IN  [bus_factor         |-> BusFactor(Len(cl)),
            code_concentration |-> topContributorShare,
            activity_trend     |-> IF Len(cl) > 0 THEN "active" ELSE "inactive"]

\* ------------------------------------------- generateCollaborationPairs
\* contributors.slice(0, 5)
TopSlice == 5
\* Math.min(topContributors.length, 3), the bound of both loops
PairedTop == 3
\* maxPairs = 6
DefaultMaxPairs == 6
InteractionDivisor == 10

Interactions_OfLarger(author1, author2) ==
  Max(author1.contributions, author2.contributions) \div InteractionDivisor

\* Math.floor(Math.min(author1.contributions, author2.contributions) / 10)
Interactions(author1, author2) ==
  Min(author1.contributions, author2.contributions) \div InteractionDivisor

\* The template string `${author1.login} <-> ${author2.login}`, kept as the
\* two logins it is made of.
PairLabel(author1, author2) == <<author1.login, author2.login>>

RECURSIVE PairLoops(_, _, _, _)
\* The nested loops over i and j > i, from the state (i, j, pairs); indices
\* are those of the code plus one.
PairLoops(topContributors, i, j, pairs) ==
  LET lim == Min(Len(topContributors), PairedTop)
  IN  IF i > lim THEN pairs
      ELSE IF j > lim THEN PairLoops(topContributors, i + 1, i + 2, pairs)
      ELSE LET interactions == Interactions(topContributors[i], topContributors[j])
           IN  PairLoops(topContributors, i, j + 1,
                 IF interactions > 0
                 THEN Append(pairs,
                        [pair         |-> PairLabel(topContributors[i], topContributors[j]),
                         interactions |-> interactions,
                         type         |-> "commit"])
                 ELSE pairs)

\* Array.prototype.slice(0, n) for n >= 0
SliceTo(s, n) == SubSeq(s, 1, Min(Len(s), n))

generateCollaborationPairs(cl, mp) ==
  LET topContributors == SliceTo(cl, TopSlice)
      pairs           == PairLoops(topContributors, 1, 2, <<>>)
  IN  SliceTo(pairs, mp)

\* --------------------------------------------- generateActivityHeatmap
UtcDay_DatePartOfInput(commitDate) == commitDate.day

\* new Date(commitDate).toISOString().split('T')[0]: the timestamp, written
\* with a UTC offset in hours, is moved to UTC and its calendar day is kept.
UtcDay(commitDate) ==
  LET hours == commitDate.day * 24 + commitDate.hour - commitDate.offset
  IN  hours \div 24

\* commit.commit?.author?.date, truthy
HasAuthoredDate(commit) == commit.date /= <<>>

\* daily[date] = (daily[date] || 0) + 1; the object is the list of its
\* entries in insertion order.
CountDay(daily, date) ==
  IF \E k \in 1..Len(daily) : daily[k][1] = date
  THEN [k \in 1..Len(daily) |->
          IF daily[k][1] = date THEN <<date, daily[k][2] + 1>> ELSE daily[k]]
  ELSE Append(daily, <<date, 1>>)

RECURSIVE ScanDays(_, _, _)
\* commits.forEach from commit k on
ScanDays(cs, k, daily) ==
  IF k > Len(cs) THEN daily
  ELSE ScanDays(cs, k + 1,
         IF HasAuthoredDate(cs[k]) THEN CountDay(daily, UtcDay(cs[k].date[1]))
         ELSE daily)

\* Object.entries(daily).sort(): entries compare as the strings
\* "YYYY-MM-DD,count"; the keys are distinct and of one width, so the order
\* is that of the days.
EntryBefore(a, b) == a[1] < b[1]

InsertEntry(sorted, e) ==
  LET ahead == {k \in 1..Len(sorted) : EntryBefore(sorted[k], e)}
      n     == Cardinality(ahead)
  IN  SubSeq(sorted, 1, n) \o <<e>> \o SubSeq(sorted, n + 1, Len(sorted))

RECURSIVE SortEntries(_, _, _)
SortEntries(entries, k, sorted) ==
  IF k > Len(entries) THEN sorted
  ELSE SortEntries(entries, k + 1, InsertEntry(sorted, entries[k]))

generateActivityHeatmap(cs) ==
  [daily |-> SortEntries(ScanDays(cs, 1, <<>>), 1, <<>>)]

\* ------------------------------------------ calculateQuarterlyInsights
\* pullRequests.filter(pr => pr.merged_at)
IsMerged(pr) == pr.merged_at /= <<>>

MergedPRs(prs) == {k \in 1..Len(prs) : IsMerged(prs[k])}

ShareOf_Rounded(n, percent) == (2 * n * percent + 100) \div 200

\* Math.floor(n * 0.25) and the like, percent = 100 * the factor.  The
\* double product has the floor of the exact one for every factor and every
\* length below 90.
ShareOf(n, percent) == (n * percent) \div 100

\* Math.round(n / d) for n >= 0, d > 0
RoundDiv(n, d) == (2 * n + d) \div (2 * d)

\* The four quarters: label, share of commits, of contributors, of pull
\* requests (percent), and the merge rate reported.
QuarterTable ==
  << [label |-> "Q1 2024", commits |-> 25, contributors |-> 60, total_prs |-> 20, merge_rate |-> 85],
     [label |-> "Q2 2024", commits |-> 28, contributors |-> 70, total_prs |-> 30, merge_rate |-> 78],
     [label |-> "Q3 2024", commits |-> 22, contributors |-> 80, total_prs |-> 25, merge_rate |-> 92],
     [label |-> "Q4 2024", commits |-> 25, contributors |-> 90, total_prs |-> 25, merge_rate |-> 88] >>

calculateQuarterlyInsights(cs, cl, prs) ==
  [year_over_year |->
     [total_commits          |-> Len(cs),
      total_contributors     |-> Len(cl),
      total_prs              |-> Len(prs),
      overall_merge_rate     |-> IF Len(prs) > 0
                                 THEN RoundPercent(Cardinality(MergedPRs(prs)), Len(prs))
                                 ELSE 0,
      avg_commits_per_day    |-> RoundDiv(Len(cs), 365),
      avg_quarterly_velocity |-> RoundDiv(Len(cs), 4),
      code_velocity          |-> RoundDiv(Len(cs), 30)],
   quarters |->
     [q \in 1..Len(QuarterTable) |->
        [label        |-> QuarterTable[q].label,
         commits      |-> ShareOf(Len(cs), QuarterTable[q].commits),
         contributors |-> ShareOf(Len(cl), QuarterTable[q].contributors),
         total_prs    |-> ShareOf(Len(prs), QuarterTable[q].total_prs),
         merge_rate   |-> QuarterTable[q].merge_rate]],
   trends |->
     [most_productive_quarter    |-> <<"Q2 2024", ShareOf(Len(cs), 28)>>,
      highest_merge_rate_quarter |-> <<"Q3 2024", 92>>]]

\* ------------------------------------------------------------------ calls
AggArgsIdle(op) ==
  /\ (op \notin {"extractContributors", "generateActivityHeatmap",
                 "calculateQuarterlyInsights"}) => commits = <<>>
  /\ (op /= "calculateLanguagePercentages") =>
        (languagesData = <<>> /\ fallbackLanguage = "")
  /\ (op \notin {"calculateRiskAssessment", "generateCollaborationPairs",
                 "calculateQuarterlyInsights"}) => contributors = <<>>
  /\ (op /= "generateCollaborationPairs") => maxPairs = 0
  /\ (op /= "calculateQuarterlyInsights") => pullRequests = <<>>

InitExtractContributors ==
  /\ aop = "extractContributors"
  /\ commits \in SeqsUpTo(CommitShapes, MaxCommits)
  /\ AggArgsIdle(aop)

\* Every language map over a subset of Langs.
LanguageMaps == UNION {[keys -> 0..MaxBytes] : keys \in SUBSET Langs}

InitLanguagePercentages ==
  /\ aop = "calculateLanguagePercentages"
  /\ languagesData \in LanguageMaps
  /\ fallbackLanguage \in Fallbacks
  /\ AggArgsIdle(aop)

RECURSIVE RankedCounts(_)
\* Contribution counts of up to n contributors, highest first (the order in
\* which extractContributors lists them).
RankedCounts(n) ==
  IF n = 0 THEN {<<>>}
  ELSE LET shorter == RankedCounts(n - 1)
           longest == {t \in shorter : Len(t) = n - 1}
       IN  shorter \cup
           {x \in {Append(t, c) : t \in longest, c \in 0..MaxContributions} :
              n = 1 \/ x[n - 1] >= x[n]}

ContributorLists ==
  {[i \in 1..Len(s) |-> [login |-> "u" \o ToString(i), contributions |-> s[i]]] :
     s \in RankedCounts(MaxContributors)}

InitRiskAssessment ==
  /\ aop = "calculateRiskAssessment"
  /\ contributors \in ContributorLists
  /\ AggArgsIdle(aop)

RECURSIVE RankedOver(_, _)
\* Ranked lists of up to n counts drawn from S, highest first.
RankedOver(S, n) ==
  IF n = 0 THEN {<<>>}
  ELSE LET shorter == RankedOver(S, n - 1)
           longest == {t \in shorter : Len(t) = n - 1}
       IN  shorter \cup
           {x \in {Append(t, c) : t \in longest, c \in S} :
              n = 1 \/ x[n - 1] >= x[n]}

MaxTens == 2
MaxPairList == 4
MaxPairsArg == 3

\* Contribution counts on either side of each multiple of InteractionDivisor.
PairCounts ==
  {c \in 0..(InteractionDivisor * MaxTens + 1) :
     c % InteractionDivisor \in {0, 1, InteractionDivisor - 1}}

InitCollaborationPairs ==
  /\ aop = "generateCollaborationPairs"
  /\ contributors \in
       {[i \in 1..Len(s) |-> [login |-> "u" \o ToString(i), contributions |-> s[i]]] :
          s \in RankedOver(PairCounts, MaxPairList)}
  /\ maxPairs \in (0..MaxPairsArg) \cup {DefaultMaxPairs}
  /\ AggArgsIdle(aop)

MaxDay == 2
MaxHeatCommits == 3

\* Authored timestamps: a calendar day, an hour at either end of it, and the
\* UTC offset the timestamp is written with.
Timestamps == [day : 1..MaxDay, hour : {0, 23}, offset : {-1, 0, 1}]

InitActivityHeatmap ==
  /\ aop = "generateActivityHeatmap"
  /\ commits \in SeqsUpTo({[date |-> <<>>]} \cup {[date |-> <<t>>] : t \in Timestamps},
                          MaxHeatCommits)
  /\ AggArgsIdle(aop)

MaxQCommits == 9
MaxQContributors == 2
MaxPRs == 3

InitQuarterlyInsights ==
  /\ aop = "calculateQuarterlyInsights"
  /\ commits \in {[i \in 1..n |-> [login |-> "A", name |-> ""]] : n \in 0..MaxQCommits}
  /\ contributors \in
       {[i \in 1..n |-> [login |-> "u" \o ToString(i), contributions |-> 1]] :
          n \in 0..MaxQContributors}
  /\ pullRequests \in SeqsUpTo({[merged_at |-> <<>>], [merged_at |-> <<1>>]}, MaxPRs)
  /\ AggArgsIdle(aop)

InitAggregate ==
  /\ FetchIdle /\ HandlerIdle /\ FrontIdle
  /\ apc = "call" /\ aout = <<>>
  /\ \/ InitExtractContributors
     \/ InitLanguagePercentages
     \/ InitRiskAssessment
     \/ InitCollaborationPairs
     \/ InitActivityHeatmap
     \/ InitQuarterlyInsights

CallExtractContributors ==
  /\ aop = "extractContributors" /\ apc = "call"
  /\ aout' = extractContributors(commits)
  /\ apc' = "return"
  /\ UNCHANGED aggArgs
  /\ UNCHANGED <<fetchVars, handlerVars, frontVars>>

CallLanguagePercentages ==
  /\ aop = "calculateLanguagePercentages" /\ apc = "call"
  /\ aout' = calculateLanguagePercentages(languagesData, fallbackLanguage)
  /\ apc' = "return"
  /\ UNCHANGED aggArgs
  /\ UNCHANGED <<fetchVars, handlerVars, frontVars>>

CallRiskAssessment ==
  /\ aop = "calculateRiskAssessment" /\ apc = "call"
  /\ aout' = calculateRiskAssessment(contributors)
  /\ apc' = "return"
  /\ UNCHANGED aggArgs
  /\ UNCHANGED <<fetchVars, handlerVars, frontVars>>

CallCollaborationPairs ==
  /\ aop = "generateCollaborationPairs" /\ apc = "call"
  /\ aout' = generateCollaborationPairs(contributors, maxPairs)
  /\ apc' = "return"
  /\ UNCHANGED aggArgs
  /\ UNCHANGED <<fetchVars, handlerVars, frontVars>>

CallActivityHeatmap ==
  /\ aop = "generateActivityHeatmap" /\ apc = "call"
  /\ aout' = generateActivityHeatmap(commits)
  /\ apc' = "return"
  /\ UNCHANGED aggArgs
  /\ UNCHANGED <<fetchVars, handlerVars, frontVars>>

CallQuarterlyInsights ==
  /\ aop = "calculateQuarterlyInsights" /\ apc = "call"
  /\ aout' = calculateQuarterlyInsights(commits, contributors, pullRequests)
  /\ apc' = "return"
  /\ UNCHANGED aggArgs
  /\ UNCHANGED <<fetchVars, handlerVars, frontVars>>

NextAggregate ==
  \/ CallExtractContributors
  \/ CallLanguagePercentages
  \/ CallRiskAssessment
  \/ CallCollaborationPairs
  \/ CallActivityHeatmap
  \/ CallQuarterlyInsights

SpecAggregate == InitAggregate /\ [][NextAggregate]_vars

\* ======================================================================
\* Properties of the Aggregator
\* ======================================================================
AbsVal(x) == IF x < 0 THEN 0 - x ELSE x

\* p is 100 * part / whole rounded to a nearest integer.
NearestPercent(p, part, whole) == 2 * AbsVal(p * whole - 100 * part) <= whole

Extracted == aop = "extractContributors" /\ apc = "return"

\* The commits attributed to `who`: by the structured login, or by the
\* freeform name when there is no login.
CommitsBy(who) ==
  {k \in 1..Len(commits) :
     \/ commits[k].login = who
     \/ (commits[k].login = "" /\ commits[k].name = who)}

Identifiable == {k \in 1..Len(commits) : commits[k].login /= "" \/ commits[k].name /= ""}

FirstSeen(who) == CHOOSE k \in CommitsBy(who) : \A j \in CommitsBy(who) : k <= j

\* C7: the contribution counts sum to the number of commits with an
\* identifiable author; every such commit counts once, for its author.
C7_CountsSumToAuthoredCommits ==
  Extracted =>
    /\ SumSeq(aout, Len(aout)) = Cardinality(Identifiable)
    /\ \A i \in 1..Len(aout) :
         aout[i].contributions = Cardinality(CommitsBy(aout[i].login))

\* Commits by login, by name only and by nobody; someone committed twice.
C7_Witness ==
  /\ Extracted
  /\ \E k \in 1..Len(commits) : commits[k].login = "" /\ commits[k].name = ""
  /\ \E k \in 1..Len(commits) : commits[k].login = "" /\ commits[k].name /= ""
  /\ \E k \in 1..Len(commits) : commits[k].login /= ""
  /\ \E i \in 1..Len(aout) : aout[i].contributions = 2
  /\ Cardinality(Identifiable) = 3

\* C8: one entry per distinct identity, by contribution count descending,
\* equal counts in the order of first occurrence in the commit list.
C8_RankedStableOnTies ==
  Extracted =>
    /\ {aout[i].login : i \in 1..Len(aout)} =
         {(IF commits[k].login /= "" THEN commits[k].login ELSE commits[k].name) :
            k \in Identifiable}
    /\ \A i, j \in 1..Len(aout) :
         i < j =>
           /\ aout[i].login /= aout[j].login
           /\ \/ aout[i].contributions > aout[j].contributions
              \/ /\ aout[i].contributions = aout[j].contributions
                 /\ FirstSeen(aout[i].login) < FirstSeen(aout[j].login)

\* Commits by A, B, A and C (by name): A overtakes B, and B stays ahead of C.
C8_Witness ==
  /\ Extracted
  /\ Len(commits) = 4
  /\ commits[1].login = "A" /\ commits[2].login = "B" /\ commits[3].login = "A"
  /\ commits[4].login = "" /\ commits[4].name = "C"
  /\ aout = << [login |-> "A", contributions |-> 2],
               [login |-> "B", contributions |-> 1],
               [login |-> "C", contributions |-> 1] >>

Percentaged == aop = "calculateLanguagePercentages" /\ apc = "return"

\* C9: with total bytes > 0 every language maps to its share of the total
\* rounded to the nearest integer percent; with total 0 the result is
\* {fallback: 100} when a fallback is given and the empty mapping otherwise.
C9_NearestPercentOrFallback ==
  Percentaged =>
    LET totalBytes == SumBytes(languagesData, DOMAIN languagesData)
    IN  IF totalBytes > 0
        THEN /\ DOMAIN aout = DOMAIN languagesData
             /\ \A lang \in DOMAIN languagesData :
                  /\ aout[lang] \in 0..100
                  /\ NearestPercent(aout[lang], languagesData[lang], totalBytes)
        ELSE IF fallbackLanguage /= ""
             THEN DOMAIN aout = {fallbackLanguage} /\ aout[fallbackLanguage] = 100
             ELSE DOMAIN aout = {}

\* Byte counts in the ratio 3 : 1 ({JS: 300, TS: 100}) give {JS: 75, TS: 25}.
C9_Witness ==
  /\ Percentaged
  /\ DOMAIN languagesData = {"JS", "TS"}
  /\ languagesData["JS"] = 3 /\ languagesData["TS"] = 1
  /\ aout["JS"] = 75 /\ aout["TS"] = 25

PercentSum == SumBytes(aout, DOMAIN aout)

Distance(a, b) == IF a < b THEN b - a ELSE a - b

\* C30 as stated: whenever the result is non-empty, every percentage is
\* an integer in 0..100 and the percentages sum to exactly 100.
C30_PercentagesSumToExactly100 ==
  (Percentaged /\ DOMAIN aout /= {}) =>
    /\ \A lang \in DOMAIN aout : aout[lang] \in 0..100
    /\ PercentSum = 100

\* C30, amended: whenever the result is non-empty, every percentage is an
\* integer in 0..100; each is rounded on its own, so their sum is within
\* half a point per language of 100, and exactly 100 for one language
\* (the fallback included).
C30_PercentagesSumNear100 ==
  (Percentaged /\ DOMAIN aout /= {}) =>
    /\ \A lang \in DOMAIN aout : aout[lang] \in 0..100
    /\ 2 * Distance(PercentSum, 100) <= Cardinality(DOMAIN aout)
    /\ (Cardinality(DOMAIN aout) = 1) => (PercentSum = 100)

\* Three languages of equal size: 33 each, 99 in all.
C30_Witness ==
  /\ Percentaged
  /\ DOMAIN languagesData = {"JS", "TS", "Go"}
  /\ languagesData["JS"] = 1 /\ languagesData["TS"] = 1 /\ languagesData["Go"] = 1
  /\ aout["JS"] = 33 /\ aout["TS"] = 33 /\ aout["Go"] = 33
  /\ PercentSum = 99

Assessed == aop = "calculateRiskAssessment" /\ apc = "return"

\* C10: bus_factor is the contributor count clamped to [1, 10];
\* code_concentration the first contributor's share of all contributions,
\* rounded to the nearest percent (0 when the total is 0); activity_trend is
\* "active" iff there is a contributor.
C10_RiskAssessment ==
  Assessed =>
    LET n     == Len(contributors)
        total_ == SumSeq(contributors, n)
    IN  /\ aout.bus_factor = (IF n < 1 THEN 1 ELSE IF n > 10 THEN 10 ELSE n)
        /\ aout.activity_trend = (IF n >= 1 THEN "active" ELSE "inactive")
        /\ IF n = 0 \/ total_ = 0
           THEN aout.code_concentration = 0
           ELSE NearestPercent(aout.code_concentration,
                               contributors[1].contributions, total_)
        /\ (n = 0) => aout = [bus_factor |-> 1, code_concentration |-> 0,
                              activity_trend |-> "inactive"]

\* Eleven contributors: the bus factor stops at 10.
C10_Witness ==
  /\ Assessed
  /\ Len(contributors) = 11
  /\ aout.bus_factor = 10
  /\ aout.code_concentration > 0
  /\ aout.activity_trend = "active"

Paired == aop = "generateCollaborationPairs" /\ apc = "return"

\* The positions of the contributors that are paired with each other.
TopRanked == 1..Min(Len(contributors), PairedTop)

MinContributions(i, j) ==
  Min(contributors[i].contributions, contributors[j].contributions)

\* C11: only the three highest-ranked contributors are paired; each pair
\* carries floor(min of the two contribution counts / 10) interactions; a
\* pair with 0 interactions is left out; no pair is listed twice; with
\* maxPairs of 3 or more no pair with interactions is missing; and the list
\* has at most min(3, maxPairs) pairs.
C11_TopThreePairedByTenths ==
  Paired =>
    /\ \A k \in 1..Len(aout) :
         \E i, j \in TopRanked :
           /\ i < j
           /\ aout[k].pair = <<contributors[i].login, contributors[j].login>>
           /\ aout[k].interactions = MinContributions(i, j) \div 10
           /\ aout[k].interactions > 0
    /\ \A k, m \in 1..Len(aout) : aout[k].pair = aout[m].pair => k = m
    /\ maxPairs >= PairedTop =>
         \A i, j \in TopRanked :
           (i < j /\ MinContributions(i, j) >= 10) =>
             \E k \in 1..Len(aout) :
               aout[k].pair = <<contributors[i].login, contributors[j].login>>
    /\ Len(aout) <= Min(3, maxPairs)
    /\ Len(aout) <= DefaultMaxPairs

\* Four contributors with ten or more contributions each and the default
\* maxPairs: three pairs, none of them with the fourth contributor, and one
\* of them with two interactions.
C11_Witness ==
  /\ Paired
  /\ maxPairs = DefaultMaxPairs
  /\ Len(contributors) = 4
  /\ contributors[4].contributions >= 10
  /\ Len(aout) = 3
  /\ \E k \in 1..3 : aout[k].interactions = 2
  /\ \E k \in 1..3 : aout[k].interactions = 1

Heatmapped == aop = "generateActivityHeatmap" /\ apc = "return"

\* The commits that carry an authored timestamp.
Dated == {k \in 1..Len(commits) : commits[k].date /= <<>>}

\* The UTC calendar day of a timestamp written with an hour and an offset:
\* the day before when the offset reaches back over midnight, the day after
\* when it reaches forward.
CalendarDayUTC(t) ==
  IF t.hour - t.offset < 0 THEN t.day - 1
  ELSE IF t.hour - t.offset > 23 THEN t.day + 1
  ELSE t.day

DatedOn(d) == {k \in Dated : CalendarDayUTC(commits[k].date[1]) = d}

\* C16: every commit with an authored timestamp is counted in exactly one
\* bucket, that of its UTC calendar day; the counts add up to the number of
\* such commits; the buckets are in ascending order of date.
C16_OneBucketPerUtcDay ==
  Heatmapped =>
    LET daily == aout.daily
    IN  /\ \A k \in Dated :
             Cardinality({b \in 1..Len(daily) :
                            daily[b][1] = CalendarDayUTC(commits[k].date[1])}) = 1
        /\ \A b \in 1..Len(daily) :
             /\ daily[b][2] = Cardinality(DatedOn(daily[b][1]))
             /\ daily[b][2] > 0
        /\ SumSeq([b \in 1..Len(daily) |-> [contributions |-> daily[b][2]]],
                  Len(daily)) = Cardinality(Dated)
        /\ \A b \in 1..(Len(daily) - 1) : daily[b][1] < daily[b + 1][1]

\* Three commits: one without a timestamp, one late on day 1 written west
\* of UTC (so on day 2 in UTC), one on day 1; the later day was seen first.
C16_Witness ==
  /\ Heatmapped
  /\ Len(commits) = 3
  /\ commits[1].date = <<[day |-> 1, hour |-> 23, offset |-> -1]>>
  /\ commits[2].date = <<>>
  /\ commits[3].date = <<[day |-> 1, hour |-> 23, offset |-> 0]>>
  /\ aout.daily = << <<1, 1>>, <<2, 1>> >>

Quartered == aop = "calculateQuarterlyInsights" /\ apc = "return"

\* C17: the totals are the sizes of the inputs; the overall merge rate is
\* round(100 * merged / pull requests), 0 without pull requests; the
\* quarters carry floor(25%), floor(28%), floor(22%), floor(25%) of the
\* commit count under four fixed labels, whatever the commits are, and
\* together never more than the commit count.
C17_QuarterlyInsights ==
  Quartered =>
    LET yoy    == aout.year_over_year
        qs     == aout.quarters
        n      == Len(commits)
        merged == Cardinality({k \in 1..Len(pullRequests) :
                                 pullRequests[k].merged_at /= <<>>})
    IN  /\ yoy.total_commits = n
        /\ yoy.total_contributors = Len(contributors)
        /\ yoy.total_prs = Len(pullRequests)
        /\ IF Len(pullRequests) = 0
           THEN yoy.overall_merge_rate = 0
           ELSE NearestPercent(yoy.overall_merge_rate, merged, Len(pullRequests))
        /\ [q \in 1..4 |-> qs[q].label] =
             <<"Q1 2024", "Q2 2024", "Q3 2024", "Q4 2024">>
        /\ [q \in 1..4 |-> qs[q].commits] =
             <<(25 * n) \div 100, (28 * n) \div 100, (22 * n) \div 100, (25 * n) \div 100>>
        /\ qs[1].commits + qs[2].commits + qs[3].commits + qs[4].commits <= n

\* Nine commits, two contributors, three pull requests of which two merged:
\* quarters of 2, 2, 1, 2 commits and a merge rate of 67.
C17_Witness ==
  /\ Quartered
  /\ Len(commits) = 9 /\ Len(contributors) = 2 /\ Len(pullRequests) = 3
  /\ aout.year_over_year.overall_merge_rate = 67
  /\ [q \in 1..4 |-> aout.quarters[q].commits] = <<2, 2, 1, 2>>

\* ======================================================================
\* Analysis Composer: GET /repository/{owner}/{repo}/analysis
\* ======================================================================
\* The analysis handler exists twice in the sources: analysis/index.js and a
\* second file (unnamed/part_005) that differs in its session check and in
\* which fetches it wraps in .catch.  The other protected handlers list the
\* user's repositories, the starred repositories, and return the session's
\* user.
AnalysisVariants == {"index", "part_005"}

Variants == AnalysisVariants \cup {"repositories", "starred", "user"}

\* The six promises handed to Promise.all, in the order of the array.
FetchNames == {"repoData", "languagesData", "contentsData",
               "commits", "pullRequests", "issues"}

\* The fetches a handler starts: the six of the analysis, the one
\* fetchAllPages of a listing, none for auth/user.
FetchesOf(v) ==
  IF v \in AnalysisVariants THEN FetchNames
  ELSE IF v \in {"repositories", "starred"} THEN {"list"}
  ELSE {}

AllFetches == UNION {FetchesOf(v) : v \in Variants}

\* The fetches whose promise carries a .catch that resolves to {} or [].
\* index.js:35-36, part_005:55-74
Wrapped(v) ==
  IF v = "index" THEN {"languagesData", "contentsData"}
  ELSE IF v = "part_005"
  THEN {"languagesData", "contentsData", "commits", "pullRequests", "issues"}
  ELSE {}

Requests == [method : {"GET", "OPTIONS"}, ownerRepo : BOOLEAN,
             session : {"absent", "valid", "invalid"}]

Pending == [state |-> "pending", value |-> "none", error |-> <<>>, status |-> 0]

\* needle occurs in the text fragment.
OccursIn(needle, fragment) ==
  \/ needle = fragment
  \/ (needle = "not found" /\ fragment = "Resource not found")

\* error.message.includes(needle); a message is a sequence of text fragments.
Includes(message, needle) ==
  \E k \in 1..Len(message) : OccursIn(needle, message[k])

\* sendError(res, status, message): the envelope { error, timestamp }
sendError(status, message) ==
  [status |-> status, kind |-> "error", error |-> message, data |-> <<>>]

StatusOfError_AlwaysInternal(message) == 500

\* asyncHandler's catch (response.js:75-95): the status chosen for an error.
StatusOfError(message) ==
  IF message = <<"Session ID not provided">> THEN 400
  ELSE IF Includes(message, "Invalid or expired session") THEN 401
  ELSE IF Includes(message, "GitHub token expired") THEN 401
  ELSE IF Includes(message, "not found") THEN 404
  ELSE 500

\* asyncHandler's catch: the envelope sent for an error.
ErrorResponse(message) ==
  IF StatusOfError(message) = 500
  THEN sendError(500, <<"Internal server error">>)
  ELSE sendError(StatusOfError(message), message)

\* sendSuccess(res, data): { data, timestamp }
SuccessResponse(data) ==
  [status |-> 200, kind |-> "success", error |-> <<>>, data |-> data]

\* A preflight answered 204 No Content.
PreflightResponse_NoContent ==
  [status |-> 204, kind |-> "preflight", error |-> <<>>, data |-> <<>>]

\* handleCors on OPTIONS: res.status(200).end()
PreflightResponse ==
  [status |-> 200, kind |-> "preflight", error |-> <<>>, data |-> <<>>]

\* getSessionFromRequest(req): what it throws, <<>> when it returns a session.
SessionError(r) ==
  IF r.session = "absent" THEN <<"Session ID not provided">>
  ELSE IF r.session = "invalid" THEN <<"Invalid or expired session">>
  ELSE <<>>

\* What the handler throws before it fetches anything; <<>> when it goes on.
\* index.js:20-24 (getSessionFromRequest), part_005:22-41
ThrownBeforeFetch(v, r) ==
  IF v \notin AnalysisVariants THEN SessionError(r)
  ELSE IF ~r.ownerRepo THEN <<"Owner and repository name required">>
  ELSE IF v = "index" THEN SessionError(r)
  ELSE IF r.session = "invalid"
       THEN <<"Invalid session provided. Please log in again.">>
       ELSE <<>>

\* What the handler throws when its await rejected with `message`.
\* part_005:78-81 wraps it; the others let it through.
ThrownAfterFetch(v, message) ==
  IF v = "part_005" THEN <<"Failed to fetch repository data: ">> \o message
  ELSE message

\* How the promise of fetch f settles when upstream ends it with `status`.
SettleAs(v, f, status) ==
  IF status = 200
  THEN [state |-> "fulfilled", value |-> "data", error |-> <<>>, status |-> 0]
  ELSE IF f \in Wrapped(v)
  THEN [state |-> "fulfilled", value |-> "empty", error |-> <<>>, status |-> 0]
  ELSE [state |-> "rejected", value |-> "none", error |-> ErrorFor(status),
        status |-> status]

\* Promise.all (or the single await): rejected by the first rejection,
\* fulfilled once all are.
JoinAfter(v, j, now) ==
  IF j.state /= "pending" THEN j
  ELSE IF \E f \in FetchesOf(v) : now[f].state = "rejected"
  THEN LET first == CHOOSE f \in FetchesOf(v) : now[f].state = "rejected"
       IN  [j EXCEPT !.state = "rejected", !.error = now[first].error,
                     !.status = now[first].status]
  ELSE IF \A f \in FetchesOf(v) : now[f].state = "fulfilled"
  THEN [j EXCEPT !.state = "fulfilled"]
  ELSE j

\* The array handed to Promise.all, in its order (the single awaited fetch
\* of a listing is an array of one).
ArrayOf(v) ==
  IF v \in AnalysisVariants
  THEN <<"repoData", "languagesData", "contentsData", "commits", "pullRequests", "issues">>
  ELSE IF FetchesOf(v) = {} THEN <<>>
  ELSE <<"list">>

Position(v, f) == CHOOSE i \in 1..Len(ArrayOf(v)) : ArrayOf(v)[i] = f

\* A slot of the result array that no promise has filled yet.
NoResult == [from |-> "none", value |-> "none"]

\* The result taking the first free slot, whatever promise it came from.
PlaceResult_InCompletionOrder(v, values, f, value) ==
  LET free == CHOOSE i \in 1..Len(values) :
                /\ values[i] = NoResult
                /\ \A j \in 1..(i - 1) : values[j] /= NoResult
  IN  [values EXCEPT ![free] = [from |-> f, value |-> value]]

\* Promise.all keeps the result of the i-th promise in the i-th slot.
PlaceResult(v, values, f, value) ==
  [values EXCEPT ![Position(v, f)] = [from |-> f, value |-> value]]

\* const [repoData, languagesData, ...] = await Promise.all([...]): each
\* name gets the slot of its position.
Destructured(v, values) ==
  [f \in FetchesOf(v) |-> values[Position(v, f)]]

\* ------------------------------------------------- what GitHub holds
MaxRepoCommits == 2
MaxIssues == 3

\* 403 stands for the failures that are neither 401, 404 nor 5xx.
FailureStatuses == (Statuses \ {200}) \cup {403}

\* Commits as the commits endpoint lists them (no authored date kept).
RepoCommitShapes ==
  {[login |-> c.login, name |-> c.name, date |-> <<>>] :
     c \in {s \in CommitShapes : s.name = "" \/ (s.login = "" /\ s.name = "A")}}

\* Issues as the issues endpoint lists them: pull requests are among them,
\* marked by a pull_request key.
IssueShapes == [pull_request : BOOLEAN, state : {"open", "closed"}]

RepoLanguageMaps ==
  {m \in LanguageMaps :
     /\ DOMAIN m \in {{}, {"Go", "JS"}}
     /\ \A lang \in DOMAIN m : m[lang] \in {0, 1, MaxBytes - 1}}

RepoPullRequests ==
  {<<>>, <<[merged_at |-> <<>>, state |-> "open"],
           [merged_at |-> <<1>>, state |-> "closed"]>>}

EmptyRepo ==
  [language |-> "", languagesData |-> <<>>, commits |-> <<>>,
   pullRequests |-> <<>>, issues |-> <<>>]

\* Repositories that differ in commits and languages, and repositories that
\* differ in issues and pull requests.
Repos ==
  {[EmptyRepo EXCEPT !.language = l, !.languagesData = m, !.commits = cs] :
     l \in Fallbacks, m \in RepoLanguageMaps,
     cs \in SeqsUpTo(RepoCommitShapes, MaxRepoCommits)}
  \cup
  {[EmptyRepo EXCEPT !.pullRequests = prs, !.issues = is] :
     prs \in RepoPullRequests, is \in SeqsUpTo(IssueShapes, MaxIssues)}

\* A repository with something of everything.
FullRepo ==
  [language |-> "Python",
   languagesData |-> [Go |-> 3, JS |-> 1],
   commits |-> <<[login |-> "B", name |-> "", date |-> <<>>],
                 [login |-> "", name |-> "A", date |-> <<>>]>>,
   pullRequests |-> <<[merged_at |-> <<>>, state |-> "open"],
                      [merged_at |-> <<1>>, state |-> "closed"]>>,
   issues |-> <<[pull_request |-> TRUE, state |-> "open"],
                [pull_request |-> FALSE, state |-> "open"],
                [pull_request |-> FALSE, state |-> "closed"]>>]

\* The value of `arrival` where the order of completion is not followed.
Unfollowed == <<"-">>

\* ------------------------------------------------- the analysis object
ValueOf_CatchValue(now, f) ==
  IF f = "repoData" THEN [language |-> repo.language] ELSE <<>>

\* What the handler holds for fetch f after the await: the data GitHub
\* answered with, or the {} / [] of the .catch.
ValueOf(now, f) ==
  IF now[f].value /= "data" THEN <<>>
  ELSE IF now[f].from = "repoData" THEN [language |-> repo.language]
  ELSE IF now[f].from = "contentsData" THEN <<>>
  ELSE repo[now[f].from]

IsPlainIssue_Any(issue) == TRUE

\* issue => !issue.pull_request
IsPlainIssue(issue) == ~issue.pull_request

\* issues.filter(issue => !issue.pull_request)
PlainIssues(issues) == {k \in 1..Len(issues) : IsPlainIssue(issues[k])}

\* issues.filter(issue => !issue.pull_request && issue.state === state).length
CountIssues(issues, state) ==
  Cardinality({k \in PlainIssues(issues) : issues[k].state = state})

\* index.js:43-145, part_005:83-187
BuildAnalysis(now) ==
  LET repoData       == ValueOf(now, "repoData")
      languages      == ValueOf(now, "languagesData")
      fetchedCommits == ValueOf(now, "commits")
      prs            == ValueOf(now, "pullRequests")
      issues         == ValueOf(now, "issues")
      cl             == extractContributors(fetchedCommits)
  IN  [code_ownership |->
         [total_commits       |-> Len(fetchedCommits),
          unique_contributors |-> Len(cl),
          top_contributors    |-> SliceTo(cl, 10)],
       activity_heatmap |->
         [daily              |-> generateActivityHeatmap(fetchedCommits).daily,
          quarterly_insights |-> calculateQuarterlyInsights(fetchedCommits, cl, prs)],
       collaboration_pairs |-> generateCollaborationPairs(cl, DefaultMaxPairs),
       pull_requests |->
         [total  |-> Len(prs),
          merged |-> Cardinality(MergedPRs(prs)),
          open   |-> Cardinality({k \in 1..Len(prs) : prs[k].state = "open"})],
       issues |->
         [total  |-> Cardinality(PlainIssues(issues)),
          open   |-> CountIssues(issues, "open"),
          closed |-> CountIssues(issues, "closed")],
       knowledge_areas |->
         [languages |-> calculateLanguagePercentages(languages, repoData.language)],
       risk_assessment |-> calculateRiskAssessment(cl)]

\* What a handler sends once its await is over.
SuccessData(v, now) ==
  IF v \in AnalysisVariants THEN BuildAnalysis(now) ELSE <<"list">>

\* ------------------------------------------------------------ the request
InitAnalysis ==
  /\ FetchIdle /\ AggIdle /\ FrontIdle
  /\ variant \in Variants
  /\ req \in Requests
  /\ (variant \notin AnalysisVariants) => req.ownerRepo
  /\ \/ (faults = FailureStatuses /\ repo = EmptyRepo /\ arrival = Unfollowed)
     \/ (faults = {} /\ variant \in AnalysisVariants /\ repo \in Repos
           /\ arrival = Unfollowed)
     \/ (faults = {} /\ variant \in AnalysisVariants /\ repo = FullRepo
           /\ arrival = <<>>)
  /\ hpc = "received"
  /\ settled = [f \in AllFetches |->
                  [state |-> "unstarted", value |-> "none", error |-> <<>>, status |-> 0]]
  /\ joined = [state |-> "pending", error |-> <<>>, status |-> 0,
               values |-> [i \in 1..Len(ArrayOf(variant)) |-> NoResult]]
  /\ responses = <<>>

\* The handler up to its await: preflight, parameter and session checks, then
\* the fetches are started (auth/user has none and answers at once).
ReceiveRequest ==
  /\ hpc = "received"
  /\ IF req.method = "OPTIONS"
     THEN /\ responses' = Append(responses, PreflightResponse)
          /\ hpc' = "responded"
          /\ UNCHANGED settled
     ELSE IF ThrownBeforeFetch(variant, req) /= <<>>
     THEN /\ responses' = Append(responses, ErrorResponse(ThrownBeforeFetch(variant, req)))
          /\ hpc' = "responded"
          /\ UNCHANGED settled
     ELSE IF FetchesOf(variant) = {}
     THEN /\ responses' = Append(responses, SuccessResponse(<<"session.user">>))
          /\ hpc' = "responded"
          /\ UNCHANGED settled
     ELSE /\ settled' = [f \in AllFetches |->
                           IF f \in FetchesOf(variant) THEN Pending ELSE settled[f]]
          /\ hpc' = "awaiting"
          /\ UNCHANGED responses
  /\ UNCHANGED <<variant, req, repo, faults, joined, arrival>>
  /\ UNCHANGED <<fetchVars, aggVars, frontVars>>

\* An upstream fetch ends: its promise settles, and the await with it.
\* In-flight fetches are not cancelled when the response went out.
SettleFetch ==
  /\ hpc \in {"awaiting", "responded"}
  /\ \E f \in FetchesOf(variant), status \in {200} \cup faults :
       /\ settled[f].state = "pending"
       /\ LET outcome == SettleAs(variant, f, status)
              now     == [settled EXCEPT ![f] = outcome]
              filled  == PlaceResult(variant, joined.values, f, outcome.value)
          IN  /\ settled' = now
              /\ joined' = JoinAfter(variant, [joined EXCEPT !.values = filled], now)
       /\ arrival' = IF arrival = Unfollowed THEN arrival ELSE Append(arrival, f)
  /\ UNCHANGED <<variant, req, repo, faults, hpc, responses>>
  /\ UNCHANGED <<fetchVars, aggVars, frontVars>>

\* The handler after its await: the result is built and sent, or the
\* rejection reaches asyncHandler.
ResumeHandler ==
  /\ hpc = "awaiting"
  /\ joined.state /= "pending"
  /\ responses' =
       Append(responses,
              IF joined.state = "fulfilled"
              THEN SuccessResponse(SuccessData(variant, Destructured(variant, joined.values)))
              ELSE ErrorResponse(ThrownAfterFetch(variant, joined.error)))
  /\ hpc' = "responded"
  /\ UNCHANGED <<variant, req, repo, faults, settled, joined, arrival>>
  /\ UNCHANGED <<fetchVars, aggVars, frontVars>>

NextAnalysis == ReceiveRequest \/ SettleFetch \/ ResumeHandler

SpecAnalysis == InitAnalysis /\ [][NextAnalysis]_vars

\* ======================================================================
\* Properties of the Analysis Composer
\* ======================================================================
Optional == {"languagesData", "contentsData", "commits", "pullRequests", "issues"}

Answered == hpc = "responded" /\ settled["repoData"].state /= "unstarted"

\* C6: a failed languages, contents, commits, pull-requests or issues fetch is
\* replaced by an empty result and the request still ends with a successful
\* analysis; only a failed repository-metadata fetch ends it with an error.
C6_OnlyMetadataFailureIsFatal ==
  Answered =>
    LET response == responses[Len(responses)]
    IN  /\ response.kind \in {"success", "error"}
        /\ response.kind = "error" <=> settled["repoData"].state = "rejected"
        /\ response.kind = "success" =>
             \A f \in Optional : settled[f].value \in {"data", "empty"}

\* The same statement for the second handler source alone.
C6_HoldsForPart005 == (variant = "part_005") => C6_OnlyMetadataFailureIsFatal

\* The last response written.
LastResponse == responses[Len(responses)]

\* The analysis handler has answered after all six fetches brought data.
AllFetched ==
  /\ variant \in AnalysisVariants
  /\ hpc = "responded"
  /\ \A f \in FetchNames : settled[f].value = "data"

\* The distinct author identities of the repository's commits: the login, or
\* the name where there is no login.
AuthorIdentities ==
  {IF repo.commits[k].login /= "" THEN repo.commits[k].login ELSE repo.commits[k].name :
     k \in 1..Len(repo.commits)} \ {""}

FatalUpstreamFailure == hpc = "responded" /\ joined.state = "rejected"

\* C13: a fatal upstream failure is reported as an error envelope whose HTTP
\* status is 401 when upstream answered 401, 404 when upstream answered 404,
\* and 500 for any other upstream failure.
C13_UpstreamStatusMapping ==
  FatalUpstreamFailure =>
    /\ Len(responses) = 1
    /\ LastResponse.kind = "error"
    /\ LastResponse.error /= <<>>
    /\ LastResponse.status =
         (IF joined.status = 401 THEN 401
          ELSE IF joined.status = 404 THEN 404
          ELSE 500)

\* The second analysis handler, whose rethrown message carries a prefix,
\* after a 404 for the repository.
C13_Witness ==
  /\ FatalUpstreamFailure
  /\ variant = "part_005"
  /\ joined.status = 404
  /\ LastResponse.status = 404
  /\ LastResponse.error = <<"Failed to fetch repository data: ", "Resource not found">>

\* C14: a request without session_id never causes an upstream request and
\* never receives a success response, on any protected endpoint.
C14_NoSessionNoUpstreamNoData ==
  (req.method = "GET" /\ req.session = "absent") =>
    /\ \A f \in AllFetches : settled[f].state = "unstarted"
    /\ \A k \in 1..Len(responses) : responses[k].kind /= "success"

\* The analysis handler has answered with an analysis.
Analysed ==
  /\ variant \in AnalysisVariants
  /\ hpc = "responded"
  /\ LastResponse.kind = "success"

\* The issues the handler received: those GitHub lists, or none when the
\* fetch was replaced by [].
FetchedIssues == IF settled["issues"].value = "data" THEN repo.issues ELSE <<>>

WithoutMarker == {k \in 1..Len(FetchedIssues) : ~FetchedIssues[k].pull_request}

\* C15: issues.total, issues.open and issues.closed count only the fetched
\* issues without a pull_request marker, and open + closed <= total.
C15_IssueCountsExcludePullRequests ==
  Analysed =>
    LET issues == LastResponse.data.issues
    IN  /\ issues.total = Cardinality(WithoutMarker)
        /\ issues.open =
             Cardinality({k \in WithoutMarker : FetchedIssues[k].state = "open"})
        /\ issues.closed =
             Cardinality({k \in WithoutMarker : FetchedIssues[k].state = "closed"})
        /\ issues.open + issues.closed <= issues.total

\* Three listed issues, the first of them a pull request.
C15_Witness ==
  /\ Analysed
  /\ Len(repo.issues) = 3
  /\ repo.issues[1] = [pull_request |-> TRUE, state |-> "open"]
  /\ repo.issues[2] = [pull_request |-> FALSE, state |-> "open"]
  /\ repo.issues[3] = [pull_request |-> FALSE, state |-> "closed"]
  /\ LastResponse.data.issues = [total |-> 2, open |-> 1, closed |-> 1]

\* What each name holds when every result is read from its own fetch.
ByName == [f \in FetchNames |-> [from |-> f, value |-> settled[f].value]]

\* C23: the six fetches of an analysis are started together, before the
\* handler waits for any of them; the analysis is built only when all six
\* have ended; every result is taken from the slot of its own fetch, so
\* the analysis is the one of the fetched values whatever the order in
\* which the fetches ended.
C23_FetchesConcurrentAnalysisOrderIndependent ==
  (variant \in AnalysisVariants) =>
    /\ \A f, g \in FetchNames :
         (settled[f].state = "unstarted") = (settled[g].state = "unstarted")
    /\ (hpc = "awaiting") =>
         \A f \in FetchNames : settled[f].state /= "unstarted"
    /\ \A i \in 1..Len(joined.values) :
         joined.values[i].from \in {"none", ArrayOf(variant)[i]}
    /\ Analysed =>
         /\ \A f \in FetchNames : settled[f].state = "fulfilled"
         /\ LastResponse.data = BuildAnalysis(ByName)

\* The fetches ended in the reverse of the order they were started in, and
\* the analysis is that of the repository.
C23_Witness ==
  /\ Analysed
  /\ arrival = <<"issues", "pullRequests", "commits", "contentsData",
                 "languagesData", "repoData">>
  /\ LastResponse.data.code_ownership.total_commits = 2
  /\ LastResponse.data.pull_requests.total = 2
  /\ LastResponse.data.issues.total = 2
  /\ LastResponse.data.knowledge_areas.languages
       = calculateLanguagePercentages(repo.languagesData, "Python")

\* C24: a request to a protected endpoint (with owner and repository where
\* the endpoint takes them) whose session_id is invalid or expired is
\* answered with 401, and one without session_id with 400, and in neither
\* case is an upstream request made; the analysis endpoint included.
C24_BadSessionRejectedBeforeUpstream ==
  (req.method = "GET" /\ req.ownerRepo /\ req.session /= "valid") =>
    /\ \A f \in AllFetches : settled[f].state = "unstarted"
    /\ (hpc = "responded") =>
         /\ Len(responses) = 1
         /\ LastResponse.kind = "error"
         /\ LastResponse.status = (IF req.session = "invalid" THEN 401 ELSE 400)

\* C25: a request gets exactly one response. While the handler runs none
\* has been sent, once it has answered exactly one has, and fetches that
\* end later add none. A preflight is answered 200 whatever its session
\* and without any upstream fetch; any other request gets one success or
\* one error envelope.
C25_ExactlyOneResponse ==
  /\ Len(responses) = (IF hpc = "responded" THEN 1 ELSE 0)
  /\ (hpc = "responded" /\ req.method = "OPTIONS") =>
       /\ LastResponse.status = 200
       /\ LastResponse.kind = "preflight"
       /\ \A f \in AllFetches : settled[f].state = "unstarted"
  /\ (hpc = "responded" /\ req.method /= "OPTIONS") =>
       /\ LastResponse.kind \in {"success", "error"}
       /\ (LastResponse.kind = "success") = (LastResponse.status = 200)
       /\ (LastResponse.kind = "error") = (LastResponse.error /= <<>>)

\* One error envelope although three of the concurrent fetches failed.
C25_Witness ==
  /\ hpc = "responded"
  /\ Len(responses) = 1
  /\ LastResponse.kind = "error"
  /\ Cardinality({f \in FetchNames : settled[f].state = "rejected"}) = 3

\* ======================================================================
\* Frontend: the useSSE hook (hooks/useSSE.js)
\* ======================================================================
MaxFailures == 5
MaxResets == 1
MaxConnectCalls == 2

\* const maxRetries = 3
maxRetries == 3

RetryDelay_Fixed(attempt) == 1000

\* setTimeout(..., 1000 * retryCountRef.current), after the increment
RetryDelay(attempt) == 1000 * attempt

\* connect(): an existing source is closed, a new EventSource is created.
Connected == "connecting"

\* connect() called by the component.
SseConnect ==
  /\ connectCalls < MaxConnectCalls
  /\ connectCalls' = connectCalls + 1
  /\ eventSource' = Connected
  /\ UNCHANGED <<retryCount, timers, isConnected, hookError, onErrorCalls,
                 scheduled, failures, resets>>
  /\ UNCHANGED <<fetchVars, aggVars, handlerVars, authVars, pageVars>>

\* eventSource.onopen
SseOpen ==
  /\ eventSource = "connecting"
  /\ eventSource' = "open"
  /\ isConnected' = TRUE
  /\ hookError' = ""
  /\ UNCHANGED <<retryCount, timers, onErrorCalls, scheduled, failures, resets,
                 connectCalls>>
  /\ UNCHANGED <<fetchVars, aggVars, handlerVars, authVars, pageVars>>

\* onmessage, case 'stream_complete': the counter is reset, the source closed.
SseStreamComplete ==
  /\ eventSource = "open"
  /\ isConnected' = FALSE
  /\ retryCount' = 0
  /\ eventSource' = "null"
  /\ UNCHANGED <<timers, hookError, onErrorCalls, scheduled, failures, resets,
                 connectCalls>>
  /\ UNCHANGED <<fetchVars, aggVars, handlerVars, authVars, pageVars>>

\* onmessage, case 'error': an error reported by the server in the stream.
SseServerError ==
  /\ eventSource = "open"
  /\ failures < MaxFailures
  /\ failures' = failures + 1
  /\ hookError' = "server error"
  /\ onErrorCalls' = Append(onErrorCalls,
                            [message |-> "server error", cause |-> "message",
                             retryCount |-> retryCount, readyState |-> eventSource])
  /\ UNCHANGED <<retryCount, eventSource, timers, isConnected, scheduled, resets,
                 connectCalls>>
  /\ UNCHANGED <<fetchVars, aggVars, handlerVars, authVars, pageVars>>

\* eventSource.onerror: the browser reports a failed connection; the source
\* is left CLOSED (a fatal failure, such as an HTTP error status) or
\* CONNECTING (the browser will reconnect by itself).
SseError ==
  /\ eventSource \in {"connecting", "open"}
  /\ failures < MaxFailures
  /\ failures' = failures + 1
  /\ isConnected' = FALSE
  /\ \E readyState \in {"closed", "connecting"} :
       /\ eventSource' = readyState
       /\ IF retryCount = 0 /\ readyState = "closed"
          THEN /\ hookError' = "Authentication failed. Please log in again."
               /\ onErrorCalls' =
                    Append(onErrorCalls,
                           [message |-> "Authentication failed. Please log in again.",
                            cause |-> "connection",
                            retryCount |-> retryCount, readyState |-> readyState])
               /\ UNCHANGED <<retryCount, timers, scheduled>>
          ELSE IF retryCount < maxRetries
          THEN /\ retryCount' = retryCount + 1
               /\ timers' = Append(timers, RetryDelay(retryCount + 1))
               /\ scheduled' = Append(scheduled,
                                      [attempt |-> retryCount + 1,
                                       delay   |-> RetryDelay(retryCount + 1)])
               /\ hookError' = "Connection failed, retrying"
               /\ UNCHANGED onErrorCalls
          ELSE /\ hookError' = "Connection error occurred after multiple retries"
               /\ onErrorCalls' =
                    Append(onErrorCalls,
                           [message |-> "Connection error occurred after multiple retries",
                            cause |-> "connection",
                            retryCount |-> retryCount, readyState |-> readyState])
               /\ UNCHANGED <<retryCount, timers, scheduled>>
  /\ UNCHANGED <<resets, connectCalls>>
  /\ UNCHANGED <<fetchVars, aggVars, handlerVars, authVars, pageVars>>

\* A retry timer fires: the current source is closed and connect() runs.
SseRetryTimer ==
  /\ \E i \in 1..Len(timers) :
       timers' = SubSeq(timers, 1, i - 1) \o SubSeq(timers, i + 1, Len(timers))
  /\ eventSource' = Connected
  /\ UNCHANGED <<retryCount, isConnected, hookError, onErrorCalls, scheduled,
                 failures, resets, connectCalls>>
  /\ UNCHANGED <<fetchVars, aggVars, handlerVars, authVars, pageVars>>

\* disconnect(), also run when the component unmounts.
SseDisconnect ==
  /\ eventSource /= "null"
  /\ eventSource' = "null"
  /\ isConnected' = FALSE
  /\ UNCHANGED <<retryCount, timers, hookError, onErrorCalls, scheduled,
                 failures, resets, connectCalls>>
  /\ UNCHANGED <<fetchVars, aggVars, handlerVars, authVars, pageVars>>

\* reset()
SseReset ==
  /\ resets < MaxResets
  /\ resets' = resets + 1
  /\ hookError' = ""
  /\ retryCount' = 0
  /\ UNCHANGED <<eventSource, timers, isConnected, onErrorCalls, scheduled,
                 failures, connectCalls>>
  /\ UNCHANGED <<fetchVars, aggVars, handlerVars, authVars, pageVars>>

InitSSE ==
  /\ FetchIdle /\ AggIdle /\ HandlerIdle
  /\ HookRendered
  /\ PageLoaded /\ urlSession = "" /\ stored = ""
  /\ NoAnalysisPage

NextSSE ==
  \/ SseConnect
  \/ SseOpen
  \/ SseStreamComplete
  \/ SseServerError
  \/ SseError
  \/ SseRetryTimer
  \/ SseDisconnect
  \/ SseReset

SpecSSE == InitSSE /\ [][NextSSE]_vars

\* The calls of onError made for a failed connection.
ConnectionErrors ==
  {k \in 1..Len(onErrorCalls) : onErrorCalls[k].cause = "connection"}

\* The counter stays within maxRetries and the retries are scheduled 1 s,
\* 2 s and 3 s ahead.
RetriesBoundedAndBackedOff ==
  /\ retryCount <= 3
  /\ \A k \in 1..Len(scheduled) :
       /\ scheduled[k].attempt \in 1..3
       /\ scheduled[k].delay = 1000 * scheduled[k].attempt

\* C18 (as claimed): at most 3 reconnects, 1 s, 2 s and 3 s ahead, the
\* counter never above 3, and an error of the connection reaches onError
\* only after these retries are exhausted.
C18_ErrorOnlyAfterRetriesExhausted ==
  /\ RetriesBoundedAndBackedOff
  /\ \A k \in ConnectionErrors : onErrorCalls[k].retryCount = 3

\* C18 (amended): as claimed, except that a first failure (counter at 0)
\* that leaves the source CLOSED reaches onError at once, as an
\* authentication failure, without any retry.
C18_ErrorAfterRetriesOrImmediateClose ==
  /\ RetriesBoundedAndBackedOff
  /\ \A k \in ConnectionErrors :
       \/ /\ onErrorCalls[k].retryCount = 3
          /\ onErrorCalls[k].message = "Connection error occurred after multiple retries"
       \/ /\ onErrorCalls[k].retryCount = 0
          /\ onErrorCalls[k].readyState = "closed"
          /\ onErrorCalls[k].message = "Authentication failed. Please log in again."

\* A connection that closed at once, then a second one that failed four
\* times: three retries were scheduled, then the terminal error.
C18_Witness ==
  /\ Len(onErrorCalls) = 2
  /\ onErrorCalls[1].message = "Authentication failed. Please log in again."
  /\ onErrorCalls[2].message = "Connection error occurred after multiple retries"
  /\ scheduled = <<[attempt |-> 1, delay |-> 1000],
                   [attempt |-> 2, delay |-> 2000],
                   [attempt |-> 3, delay |-> 3000]>>
  /\ retryCount = 3

\* C28: after disconnect() there is no EventSource, and one is created
\* again only by a connect() of the caller: a retry timer left over from
\* an earlier failure creates none.
C28_NoReconnectAfterDisconnect ==
  [][(eventSource = "null" /\ eventSource' /= "null")
       => connectCalls' = connectCalls + 1]_vars

\* ======================================================================
\* Frontend: the browser session (contexts/AuthContext.js, utils/api.js)
\* ======================================================================
MaxCalls == 3
MaxReloads == 1

\* The components' own calls of apiCall.
ComponentCalls == {"repositories", "starred", "analysis"}

\* The statuses a response to apiCall may carry; 500 stands for every
\* failure other than 401.
ApiStatuses == {200, 401, 500}

\* The session state as one record.
AuthRecord ==
  [stored |-> stored, sessionId |-> sessionId, user |-> user,
   loading |-> loading, location |-> location]

SetAuthRecord(st) ==
  /\ stored' = st.stored /\ sessionId' = st.sessionId /\ user' = st.user
  /\ loading' = st.loading /\ location' = st.location

\* localStorage.removeItem('github_session'); setSessionId(null); setUser(null)
\* The React state is cleared, the localStorage entry stays.
ClearSession_KeepStorage(st) == [st EXCEPT !.sessionId = "", !.user = ""]

ClearSession(st) == [st EXCEPT !.stored = "", !.sessionId = "", !.user = ""]

handleAuthError_NoRedirect(st) == [ClearSession(st) EXCEPT !.loading = FALSE]

\* AuthContext.js:82-89
handleAuthError(st) ==
  [ClearSession(st) EXCEPT !.loading = FALSE, !.location = "/"]

\* api.js:31-45: what apiCall throws for a response, "" when it returns.
ThrownByApiCall(status) ==
  IF status = 200 THEN ""
  ELSE IF status = 401 THEN "Session expired. Please log in again."
  ELSE "HTTP " \o ToString(status)

\* error.message.includes('Session expired') || error.message.includes('401')
IsAuthErrorMessage(message) == message = "Session expired. Please log in again."

\* checkSession after its await (AuthContext.js:43-56)
AfterCheckSession(st, session, message) ==
  IF message = ""
  THEN [st EXCEPT !.user = "user", !.stored = session, !.loading = FALSE]
  ELSE IF IsAuthErrorMessage(message)
  THEN [ClearSession(st) EXCEPT !.loading = FALSE]
  ELSE [st EXCEPT !.loading = FALSE]

\* AuthProvider is mounted: the first effect reads the session from the URL
\* or from localStorage and has it checked, the second registers
\* handleAuthError with the API client.
AuthMount ==
  /\ ~mounted
  /\ mounted' = TRUE
  /\ LET session == IF urlSession /= "" THEN urlSession ELSE stored
     IN  IF session /= ""
         THEN /\ sessionId' = session
              /\ inflight' = {[who |-> "checkSession", session |-> session]}
              /\ UNCHANGED loading
         ELSE /\ loading' = FALSE
              /\ UNCHANGED <<sessionId, inflight>>
  /\ urlSession' = ""
  /\ authErrorHandler' = "handleAuthError"
  /\ UNCHANGED <<stored, user, location, calls, reloads>>
  /\ UNCHANGED <<fetchVars, aggVars, handlerVars, sseVars, pageVars>>

\* A component calls apiCall.
AuthCall ==
  /\ mounted
  /\ Len(calls) + Cardinality(inflight) < MaxCalls
  /\ \E who \in ComponentCalls :
       /\ \A c \in inflight : c.who /= who
       /\ inflight' = inflight \cup {[who |-> who, session |-> sessionId]}
  /\ UNCHANGED <<mounted, urlSession, authState, authErrorHandler, calls, reloads>>
  /\ UNCHANGED <<fetchVars, aggVars, handlerVars, sseVars, pageVars>>

\* logout(): the server is told when there is a session; the local state is
\* cleared in the finally block.
AuthLogout ==
  /\ mounted
  /\ Len(calls) + Cardinality(inflight) < MaxCalls
  /\ \A c \in inflight : c.who /= "logout"
  /\ IF sessionId /= ""
     THEN /\ inflight' = inflight \cup {[who |-> "logout", session |-> sessionId]}
          /\ UNCHANGED authState
     ELSE /\ SetAuthRecord(ClearSession(AuthRecord))
          /\ UNCHANGED inflight
  /\ UNCHANGED <<mounted, urlSession, authErrorHandler, calls, reloads>>
  /\ UNCHANGED <<fetchVars, aggVars, handlerVars, sseVars, pageVars>>

\* The response to an apiCall arrives: apiCall runs on (the 401 branch calls
\* the registered handler and throws), then the caller's continuation.
AuthRespond ==
  /\ mounted
  /\ \E c \in inflight, status \in ApiStatuses :
       LET message == ThrownByApiCall(status)
           st1     == IF status = 401 /\ authErrorHandler /= "null"
                      THEN handleAuthError(AuthRecord)
                      ELSE AuthRecord
           st2     == IF c.who = "checkSession"
                      THEN AfterCheckSession(st1, c.session, message)
                      ELSE IF c.who = "logout" THEN ClearSession(st1)
                      ELSE st1
       IN  /\ inflight' = inflight \ {c}
           /\ calls' = Append(calls, [who |-> c.who, status |-> status, thrown |-> message])
           /\ SetAuthRecord(st2)
  /\ UNCHANGED <<mounted, urlSession, authErrorHandler, reloads>>
  /\ UNCHANGED <<fetchVars, aggVars, handlerVars, sseVars, pageVars>>

\* The navigation started by window.location.href = '/' takes place: the
\* page and its script state are gone, localStorage stays.
AuthReload ==
  /\ location = "/"
  /\ reloads < MaxReloads
  /\ reloads' = reloads + 1
  /\ mounted' = FALSE /\ authErrorHandler' = "null" /\ inflight' = {}
  /\ sessionId' = "" /\ user' = "" /\ loading' = TRUE /\ location' = "app"
  /\ UNCHANGED <<urlSession, stored, calls>>
  /\ UNCHANGED <<fetchVars, aggVars, handlerVars, sseVars, pageVars>>

InitAuth ==
  /\ FetchIdle /\ AggIdle /\ HandlerIdle
  /\ HookRendered
  /\ PageLoaded
  /\ urlSession \in {"", "s2"}
  /\ stored \in {"", "s1"}
  /\ NoAnalysisPage

NextAuth == AuthMount \/ AuthCall \/ AuthLogout \/ AuthRespond \/ AuthReload

SpecAuth == InitAuth /\ [][NextAuth]_vars

\* An apiCall has just received a 401.
Received401 ==
  /\ Len(calls') = Len(calls) + 1
  /\ calls'[Len(calls')].status = 401

\* C19: whenever apiCall receives a 401, the local session state is cleared
\* (localStorage entry removed, sessionId and user null), the browser is
\* sent to the login screen, and the call rejects with 'Session expired.
\* Please log in again.'.
C19_UnauthorizedClearsSessionAndRedirects ==
  [][Received401 =>
       /\ stored' = "" /\ sessionId' = "" /\ user' = ""
       /\ location' = "/"
       /\ calls'[Len(calls')].thrown = "Session expired. Please log in again."]_vars

\* A session was checked and stored, then a component's call received 401.
C19_Witness ==
  /\ Len(calls) = 2
  /\ calls[1] = [who |-> "checkSession", status |-> 200, thrown |-> ""]
  /\ calls[2].who = "repositories" /\ calls[2].status = 401
  /\ calls[2].thrown = "Session expired. Please log in again."
  /\ stored = "" /\ sessionId = "" /\ user = "" /\ location = "/"

\* isAuthenticated: !!user && !!sessionId (AuthContext.js:102)
isAuthenticated == user /= "" /\ sessionId /= ""

\* logout() has just run to its end: without a session it made no call,
\* otherwise the response to its POST has arrived.
LogoutCompleted ==
  \/ (AuthLogout /\ sessionId = "")
  \/ (Len(calls') = Len(calls) + 1 /\ calls'[Len(calls')].who = "logout")

\* C29: when logout() ends, whether its POST succeeded, failed or was not
\* made, localStorage holds no 'github_session', sessionId and user are
\* null and isAuthenticated is false.
C29_LogoutAlwaysClearsSession ==
  [][LogoutCompleted =>
       /\ stored' = "" /\ sessionId' = "" /\ user' = ""
       /\ ~isAuthenticated']_vars

\* A session was checked and stored, then logout's POST failed.
C29_Witness ==
  /\ Len(calls) = 2
  /\ calls[1] = [who |-> "checkSession", status |-> 200, thrown |-> ""]
  /\ calls[2].who = "logout" /\ calls[2].status = 500
  /\ stored = "" /\ sessionId = "" /\ user = ""
  /\ ~isAuthenticated
  /\ location = "app"

\* ======================================================================
\* RepositoryAnalysis component, regular (non-streaming) mode
\* (RepositoryAnalysis.js): fetchAnalysis and the effect that calls it
\* ======================================================================
\* Most apiCalls one page makes.
MaxAnalysisCalls == 4
\* Repositories the route can name.
MaxRepos == 2

\* The three filter buttons (RepositoryAnalysis.js:664, 679, 694).
QuarterFilters == {"current", "last_financial", "past_year"}

\* The main view, with the filter buttons, is what the component renders:
\* not the loading view (397), not the error view (532), not the empty
\* view (560).
MainViewRendered ==
  /\ ~analysisLoading
  /\ analysisError = ""
  /\ analysis /= <<>>

\* fetchAnalysis up to its await (331-345): the state is reset and one
\* apiCall leaves with the route and the range of this render.
StartFetchAnalysis(r, q) ==
  /\ analysisLoading' = TRUE
  /\ analysisError' = ""
  /\ analysis' = <<>>
  /\ issued' = issued + 1
  /\ analysisCalls' = analysisCalls \cup {[id |-> issued + 1, repo |-> r, range |-> q]}

\* A filter button is clicked: quarterFilter changes, epochRange and
\* fetchAnalysis with it, and the effect (363-382) calls fetchAnalysis.
SelectQuarter ==
  /\ routeRepo /= 0
  /\ MainViewRendered
  /\ issued < MaxAnalysisCalls
  /\ \E q \in QuarterFilters \ {quarterFilter} :
       /\ quarterFilter' = q
       /\ StartFetchAnalysis(routeRepo, q)
  /\ overlapped' = (overlapped \/ analysisCalls /= {})
  /\ UNCHANGED routeRepo
  /\ UNCHANGED <<fetchVars, aggVars, handlerVars, sseVars, authVars>>

\* The route changes to another repository (useParams, 108): owner and
\* repo are dependencies of fetchAnalysis and of the effect.
RouteChange ==
  /\ routeRepo /= 0
  /\ issued < MaxAnalysisCalls
  /\ \E r \in (1..MaxRepos) \ {routeRepo} :
       /\ routeRepo' = r
       /\ StartFetchAnalysis(r, quarterFilter)
  /\ UNCHANGED <<quarterFilter, overlapped>>
  /\ UNCHANGED <<fetchVars, aggVars, handlerVars, sseVars, authVars>>

\* An apiCall of fetchAnalysis ends (345-354): its data is stored, or the
\* error message; either way loading is over.
AnalysisResponse ==
  /\ \E c \in analysisCalls, ok \in BOOLEAN :
       /\ analysisCalls' = analysisCalls \ {c}
       /\ IF ok
          THEN /\ analysis' = <<[repo |-> c.repo, range |-> c.range]>>
               /\ UNCHANGED analysisError
          ELSE /\ analysisError' = "Failed to load repository analysis. Please try again."
               /\ UNCHANGED analysis
       /\ analysisLoading' = FALSE
  /\ UNCHANGED <<routeRepo, quarterFilter, issued, overlapped>>
  /\ UNCHANGED <<fetchVars, aggVars, handlerVars, sseVars, authVars>>

\* The Retry button of the error view (538-542): setError(null); reset and
\* connect do nothing without a stream URL.
RetryClick ==
  /\ routeRepo /= 0
  /\ ~analysisLoading
  /\ analysisError /= ""
  /\ analysisError' = ""
  /\ UNCHANGED <<routeRepo, quarterFilter, analysis, analysisLoading,
                 analysisCalls, issued, overlapped>>
  /\ UNCHANGED <<fetchVars, aggVars, handlerVars, sseVars, authVars>>

\* The component after its first effect ran: useState(null), useState(true),
\* useState('current'), and the first fetchAnalysis awaiting its apiCall.
InitAnalysisPage ==
  /\ FetchIdle /\ AggIdle /\ HandlerIdle
  /\ HookRendered
  /\ PageLoaded /\ urlSession = "" /\ stored = ""
  /\ routeRepo = 1
  /\ quarterFilter = "current"
  /\ analysis = <<>>
  /\ analysisLoading = TRUE
  /\ analysisError = ""
  /\ issued = 1
  /\ analysisCalls = {[id |-> 1, repo |-> 1, range |-> "current"]}
  /\ overlapped = FALSE

NextAnalysisPage == SelectQuarter \/ RouteChange \/ AnalysisResponse \/ RetryClick

SpecAnalysisPage == InitAnalysisPage /\ [][NextAnalysisPage]_vars

\* C27: if the filter was changed while an earlier request was awaited,
\* then once no response is outstanding the analysis in the component's
\* state is the one of the range selected last.
C27_LatestSelectedRangeWins ==
  (overlapped /\ analysisCalls = {} /\ analysis /= <<>>) =>
    analysis[1].range = quarterFilter

====
